---- MODULE Spec2Model ----
(***************************************************************************)
(* Model of the accessibility tool orchestrator and compliance scoring of  *)
(* n8n-nodes-pdf-accessibility.                                            *)
(*                                                                         *)
(*   tools-drafts/AccessibilityToolsManager.ts  registry, recommendation,  *)
(*                                              executeTools, statistics,  *)
(*                                              generateAccessibilityReport*)
(*   tools-drafts/MetadataEnhancerTool.ts       canProcess of the metadata *)
(*                                              and heading analyzers      *)
(*   tools/AccessibilityToolsManager.ts,                                   *)
(*   tools/LinkTextTool.ts, ImageAltTextTool    canProcess of the table,   *)
(*                                              link and image analyzers   *)
(*                                                                         *)
(* Wall-clock fields (processing_time_ms, processingTime) are not part of  *)
(* the state: no modelled decision reads them.                             *)
(***************************************************************************)
EXTENDS Integers, Sequences, FiniteSets, TLC

VARIABLES
    tools,          \* AccessibilityToolsManager.tools: the Map's keys in insertion order
    executionLog,   \* AccessibilityToolsManager.executionLog
    pc,             \* position of the caller: "idle", "awaiting" (inside executeTools,
                    \* suspended on tool.execute) or "returned" (a call has produced its value)
    frame,          \* the active call: its arguments, locals and return value; for
                    \* executeTools also the history of the call: "requested" (the
                    \* names as passed; "toolNames" is the caller's array, which
                    \* Array.prototype.sort reorders in place and returns, so that
                    \* orderedTools is the same array), "executed" (the names whose execute was
                    \* invoked) and "settled" (what each of those runs did)
    returned,       \* history: every envelope list returned by executeTools, concatenated
    repResults,     \* the envelope list handed to generateAccessibilityReport
    report,         \* what the last generateAccessibilityReport call returned
    execution,      \* the last direct call of an analyzer's execute: its arguments,
                    \* what its environment did (Math.random, failing steps) and
                    \* the envelope it resolved with
    extraction,     \* HeadingStructureTool.extractHeadings at work on a text, and
                    \* the analysis made of the headings it found
    audit,          \* the last AdvancedReportingEngine.generateAuditReport call: its
                    \* arguments, the report, its JSON export and the parsed export
    calls           \* the executeTools invocations that callers started without
                    \* awaiting one another, in the order they were started: each
                    \* one's frame (arguments, locals, history and return value)

vars == <<tools, executionLog, pc, frame, returned, repResults, report,
          execution, extraction, audit, calls>>

\* The analyzers and the reporting engine are stateless classes: the manager's
\* methods leave their calls' records alone; so does a caller that awaits each
\* call the frames of overlapping invocations, of which it has none.
analyzerVars == <<execution, extraction, audit, calls>>

(***************************************************************************)
(* Bounds                                                                  *)
(***************************************************************************)
MaxNames == 2        \* longest toolNames list passed to executeTools
MaxLog == 2          \* executeTools is not called once the log would pass this length
MaxRegistered == 2   \* most tools registered on one manager
MaxEnvelopes == 2    \* longest envelope list handed to generateAccessibilityReport
MaxIssues == 2       \* most issues in such a list, all envelopes together
MaxFixes == 2        \* most fixes in such a list, all envelopes together
MaxImages == 2       \* most image mentions in a document's text
MaxTables == 2       \* most tables in a document's text
MaxLinks == 2        \* most links in a document's text
MaxHeadingLines == 3 \* most lines of a document given to the heading analyzer's execute
MaxAnalyzedLines == 4 \* most lines of a text given to analyzeHeadingStructure
MaxDetectedTables == 11  \* most tables extractTableInfo's loop finds in a text
MaxCalls == 2        \* most executeTools invocations in flight on one manager
MaxGeneratorCalls == 2   \* fix-generator calls of one run that may reject
MaxAuditScore == 100 \* highest score handed to generateAuditReport

(***************************************************************************)
(* Data model                                                              *)
(***************************************************************************)
ToolNames ==
    {"metadata_enhancer", "heading_structure", "image_alttext",
     "table_accessibility", "link_text"}

\* Names a caller may request: the five analyzers, and two names nobody registers.
RequestNames == ToolNames \cup {"unknown_tool", "other_tool"}

Severities == {"low", "medium", "high", "critical"}

WcagLevels == {"A", "AA", "AAA"}

\* textContent.length around the two thresholds the code compares it with.
TextLengths == {500, 501, 1000, 1001}

Contexts ==
    [hasImages : BOOLEAN, hasTables : BOOLEAN, hasLinks : BOOLEAN,
     textLength : TextLengths, wcagLevel : WcagLevels]

NoError == <<>>

NoFrame == [op |-> "none"]


\* A frame's "ret" before the call has produced its value.
Pending == [pending |-> TRUE]

\* AccessibilityIssue and AccessibilityFix, reduced to the fields the orchestrator
\* and the score read.
Issue(sev) == [severity |-> sev]

Fix(isApplied) == [applied |-> isApplied]

\* What tool.execute can do for a tool that implements AccessibilityToolInterface:
\* resolve with an envelope (success true or false) or reject with an error.
ToolOutcomes ==
    { [kind |-> "returns", success |-> TRUE, issuesFound |-> <<>>,
       fixesApplied |-> <<>>, error |-> NoError],
      [kind |-> "returns", success |-> TRUE, issuesFound |-> <<Issue("high")>>,
       fixesApplied |-> <<Fix(FALSE)>>, error |-> NoError],
      [kind |-> "returns", success |-> FALSE, issuesFound |-> <<Issue("medium")>>,
       fixesApplied |-> <<>>, error |-> <<"analysis failed">>],
      [kind |-> "throws", success |-> FALSE, issuesFound |-> <<>>,
       fixesApplied |-> <<>>, error |-> <<"boom">>] }

(***************************************************************************)
(* The analyzers' eligibility predicates                                   *)
(***************************************************************************)
\* MetadataEnhancerTool.canProcess: any document.
CanProcessMetadata(ctx) == TRUE

\* Mutant of CanProcessHeadings: the text must be longer than 1001 characters.
CanProcessLongerTexts(ctx) == ctx.textLength > 1001

\* HeadingStructureTool.canProcess
CanProcessHeadings(ctx) == ctx.textLength > 500

\* ImageAltTextTool.canProcess
CanProcessImages(ctx) == ctx.hasImages

\* TableAccessibilityTool.canProcess
CanProcessTables(ctx) == ctx.hasTables

\* LinkTextTool.canProcess
CanProcessLinks(ctx) == ctx.hasLinks

\* tool.canProcess(context) of the tool registered under name.
CanProcess(name, ctx) ==
    CASE name = "metadata_enhancer"   -> CanProcessMetadata(ctx)
      [] name = "heading_structure"   -> CanProcessHeadings(ctx)
      [] name = "image_alttext"       -> CanProcessImages(ctx)
      [] name = "table_accessibility" -> CanProcessTables(ctx)
      [] name = "link_text"           -> CanProcessLinks(ctx)

(***************************************************************************)
(* The registry                                                            *)
(***************************************************************************)
ToolsHas(registry, name) == \E i \in 1..Len(registry) : registry[i] = name

\* Map.set: a new key goes last, an existing key keeps its place.
ToolsSet(registry, name) ==
    IF ToolsHas(registry, name) THEN registry ELSE Append(registry, name)

(***************************************************************************)
(* optimizeToolOrder                                                       *)
(***************************************************************************)
OrderPriority(name) ==
    CASE name = "document_structure"  -> 1
      [] name = "metadata_enhancer"   -> 2
      [] name = "heading_structure"   -> 3
      [] name = "image_alttext"       -> 4
      [] name = "table_accessibility" -> 5
      [] name = "link_text"           -> 6
      [] name = "reading_order"       -> 7
      [] name = "color_contrast"      -> 8
      [] name = "compliance_checker"  -> 9
      [] OTHER                        -> 999

\* The comparator handed to Array.prototype.sort.
CompareTools(a, b) == OrderPriority(a) - OrderPriority(b)

\* Mutant of InsertOrdered: x goes in front of the elements it compares equal to.
InsertOrderedUnstable(sorted, x) ==
    LET keep == Cardinality({i \in 1..Len(sorted) : CompareTools(sorted[i], x) < 0})
    IN  SubSeq(sorted, 1, keep) \o <<x>> \o SubSeq(sorted, keep + 1, Len(sorted))

\* One step of a stable sort: x goes after every element that does not compare
\* greater than it.
InsertOrdered(sorted, x) ==
    LET keep == Cardinality({i \in 1..Len(sorted) : CompareTools(sorted[i], x) <= 0})
    IN  SubSeq(sorted, 1, keep) \o <<x>> \o SubSeq(sorted, keep + 1, Len(sorted))

RECURSIVE SortPrefix(_, _)
SortPrefix(names, n) ==
    IF n = 0 THEN <<>> ELSE InsertOrdered(SortPrefix(names, n - 1), names[n])

\* Array.prototype.sort is stable (Node >= 18.10, package.json "engines").
OptimizeToolOrder(toolNames) == SortPrefix(toolNames, Len(toolNames))

(***************************************************************************)
(* executeTools                                                            *)
(***************************************************************************)
\* error: `Tool '${toolName}' not found`
NotFoundError(toolName) == <<"Tool", toolName, "not found">>

\* error: `Tool '${toolName}' cannot process this document type`
CannotProcessError(toolName) == <<"Tool", toolName, "cannot process this document type">>

FailureEnvelope(toolName, message) ==
    [toolName |-> toolName, success |-> FALSE, issuesFound |-> <<>>,
     fixesApplied |-> <<>>, error |-> message]

\* The envelope a tool resolves with; every tool of the repository reports its
\* own getName() as toolName.
ToolResult(toolName, outcome) ==
    [toolName |-> toolName, success |-> outcome.success,
     issuesFound |-> outcome.issuesFound, fixesApplied |-> outcome.fixesApplied,
     error |-> outcome.error]

\* Mutant of SkipNotFound: an unregistered name is passed over without an envelope.
SkipNotFoundSilently(f, toolName) ==
    [f EXCEPT !.overallSuccess = FALSE, !.idx = @ + 1]

\* The unregistered branch: push a failure envelope, overallSuccess = false, continue.
SkipNotFound(f, toolName) ==
    [f EXCEPT !.results = Append(@, FailureEnvelope(toolName, NotFoundError(toolName))),
              !.overallSuccess = FALSE,
              !.idx = @ + 1]

\* The ineligible branch: push a failure envelope and continue; overallSuccess is
\* left as it is.
SkipCannotProcess(f, toolName) ==
    [f EXCEPT !.results = Append(@, FailureEnvelope(toolName, CannotProcessError(toolName))),
              !.idx = @ + 1]

\* The try branch once tool.execute has resolved.
RecordResult(f, result) ==
    [f EXCEPT !.results = Append(@, result),
              !.totalIssues = @ + Len(result.issuesFound),
              !.totalFixes = @ + Len(result.fixesApplied),
              !.overallSuccess = @ /\ result.success,
              !.idx = @ + 1]

\* Mutant of RecordError: a rejected run ends the loop.
RecordErrorAndStop(f, toolName, message) ==
    [f EXCEPT !.results = Append(@, FailureEnvelope(toolName, message)),
              !.overallSuccess = FALSE,
              !.idx = Len(f.orderedTools) + 1]

\* The catch branch once tool.execute has rejected.
RecordError(f, toolName, message) ==
    [f EXCEPT !.results = Append(@, FailureEnvelope(toolName, message)),
              !.overallSuccess = FALSE,
              !.idx = @ + 1]

\* Mutant of CanProcessGate: the eligibility check is missing.
GateAlwaysOpen(toolName, ctx) == TRUE

\* The gate in front of tool.execute: `if (!tool.canProcess(context)) ... continue`.
CanProcessGate(toolName, ctx) == CanProcess(toolName, ctx)

\* The for loop from position f.idx up to the next await, or to its end.
RECURSIVE RunLoop(_, _)
RunLoop(f, registry) ==
    IF f.idx > Len(f.orderedTools) THEN f
    ELSE LET toolName == f.orderedTools[f.idx]
         IN  IF ~ToolsHas(registry, toolName)
                 THEN RunLoop(SkipNotFound(f, toolName), registry)
             ELSE IF ~CanProcessGate(toolName, f.context)
                 THEN RunLoop(SkipCannotProcess(f, toolName), registry)
             ELSE f

\* Mutant of StoreExecutionLog: the log is replaced by the last call's envelopes.
StoreExecutionLogOverwriting(log, results) == results

\* this.executionLog.push(...results)
StoreExecutionLog(log, results) == log \o results

ExecuteToolsReturn(f) ==
    [results |-> f.results,
     summary |-> [totalIssues |-> f.totalIssues, totalFixes |-> f.totalFixes,
                  success |-> f.overallSuccess]]

\* Either suspend on the next tool.execute, or store the log and return.
Proceed(f) ==
    IF f.idx > Len(f.orderedTools)
        THEN /\ pc' = "returned"
             /\ frame' = [f EXCEPT !.ret = ExecuteToolsReturn(f)]
             /\ executionLog' = StoreExecutionLog(executionLog, f.results)
             /\ returned' = returned \o f.results
        ELSE /\ pc' = "awaiting"
             /\ frame' = [f EXCEPT !.executed = Append(@, f.orderedTools[f.idx])]
             /\ UNCHANGED <<executionLog, returned>>

\* llmProvider: whether the optional third argument is passed; repeats: whether
\* the call repeats the caller's previous one, and then first: the envelopes that
\* one returned.
NewExecuteFrame(toolNames, ctx) ==
    [op |-> "executeTools", requested |-> toolNames, context |-> ctx,
     llmProvider |-> FALSE, repeats |-> FALSE, first |-> <<>>,
     toolNames |-> OptimizeToolOrder(toolNames),
     orderedTools |-> OptimizeToolOrder(toolNames), idx |-> 1,
     results |-> <<>>, totalIssues |-> 0, totalFixes |-> 0,
     overallSuccess |-> TRUE, executed |-> <<>>, settled |-> <<>>, ret |-> Pending]

\* The call, up to its first await or its return.
ExecuteTools(toolNames, ctx) ==
    /\ pc = "idle"
    /\ Len(executionLog) + Len(toolNames) <= MaxLog
    /\ Proceed(RunLoop(NewExecuteFrame(toolNames, ctx), tools))
    /\ UNCHANGED <<tools, repResults, report>>
    /\ UNCHANGED analyzerVars

\* tool.execute settles and executeTools resumes, up to its next await or its return.
ToolSettles(outcome) ==
    /\ pc = "awaiting"
    /\ LET toolName == frame.orderedTools[frame.idx]
           seen == [frame EXCEPT !.settled = Append(@, outcome)]
           f == IF outcome.kind = "returns"
                    THEN RecordResult(seen, ToolResult(toolName, outcome))
                    ELSE RecordError(seen, toolName, outcome.error)
       IN  Proceed(RunLoop(f, tools))
    /\ UNCHANGED <<tools, repResults, report>>
    /\ UNCHANGED analyzerVars

\* The awaiting caller takes the value of the finished call.
Return ==
    /\ pc = "returned"
    /\ pc' = "idle"
    /\ frame' = NoFrame
    /\ UNCHANGED <<tools, executionLog, returned, repResults, report>>
    /\ UNCHANGED analyzerVars

(***************************************************************************)
(* registerTool                                                            *)
(***************************************************************************)
RegisterTool(name) ==
    /\ pc = "idle"
    /\ ToolsHas(tools, name) \/ Len(tools) < MaxRegistered
    /\ tools' = ToolsSet(tools, name)
    /\ UNCHANGED <<executionLog, pc, frame, returned, repResults, report>>
    /\ UNCHANGED analyzerVars

(***************************************************************************)
(* analyzeAndRecommendTools                                                *)
(***************************************************************************)
PushIf(condition, name) == IF condition THEN <<name>> ELSE <<>>

RecommendedTools(registry, ctx) ==
       PushIf(ToolsHas(registry, "document_structure"), "document_structure")
    \o PushIf(ctx.hasImages /\ ToolsHas(registry, "image_alttext"), "image_alttext")
    \o PushIf(ctx.hasTables /\ ToolsHas(registry, "table_accessibility"),
              "table_accessibility")
    \o PushIf(ctx.hasLinks /\ ToolsHas(registry, "link_text"), "link_text")
    \o PushIf(ToolsHas(registry, "metadata_enhancer"), "metadata_enhancer")
    \o PushIf(ctx.textLength > 1000 /\ ToolsHas(registry, "heading_structure"),
              "heading_structure")

EstimatedComplexity(ctx, recommended) ==
    IF ctx.wcagLevel = "AAA" \/ Len(recommended) > 5 THEN "complex"
    ELSE IF ctx.wcagLevel = "AA" \/ Len(recommended) > 3 THEN "moderate"
    ELSE "simple"

\* The reasoning list holds one fixed sentence per recommended name and is left out.
Recommendation(registry, ctx) ==
    LET recommended == RecommendedTools(registry, ctx)
    IN  [recommendedTools |-> recommended,
         estimatedComplexity |-> EstimatedComplexity(ctx, recommended)]

AnalyzeAndRecommendTools(ctx) ==
    /\ pc = "idle"
    /\ pc' = "returned"
    /\ frame' = [op |-> "analyzeAndRecommendTools", context |-> ctx,
                 ret |-> Recommendation(tools, ctx)]
    /\ UNCHANGED <<tools, executionLog, returned, repResults, report>>
    /\ UNCHANGED analyzerVars

(***************************************************************************)
(* getExecutionStats                                                       *)
(***************************************************************************)
Successful(log) == Cardinality({i \in 1..Len(log) : log[i].success})

ToolUsage(log, name) == Cardinality({i \in 1..Len(log) : log[i].toolName = name})

\* The keys of the toolUsage Map, in insertion order.
RECURSIVE UsageKeys(_, _)
UsageKeys(log, n) ==
    IF n = 0 THEN <<>> ELSE ToolsSet(UsageKeys(log, n - 1), log[n].toolName)

\* One step of the stable sort by (a, b) => b[1] - a[1].
InsertByUsage(log, sorted, name) ==
    LET keep == Cardinality({i \in 1..Len(sorted) :
                    ToolUsage(log, name) - ToolUsage(log, sorted[i]) <= 0})
    IN  SubSeq(sorted, 1, keep) \o <<name>> \o SubSeq(sorted, keep + 1, Len(sorted))

RECURSIVE SortByUsage(_, _, _)
SortByUsage(log, keys, n) ==
    IF n = 0 THEN <<>> ELSE InsertByUsage(log, SortByUsage(log, keys, n - 1), keys[n])

MostUsedTools(log) ==
    LET keys == UsageKeys(log, Len(log))
        ranked == SortByUsage(log, keys, Len(keys))
    IN  SubSeq(ranked, 1, IF Len(ranked) < 5 THEN Len(ranked) ELSE 5)

\* successRate is the fraction successful / length times 100, kept as the pair
\* <<numerator, denominator>>; averageProcessingTime is wall-clock and left out.
ExecutionStats(log) ==
    IF Len(log) = 0
        THEN [totalExecutions |-> 0, successRate |-> <<0, 1>>, mostUsedTools |-> <<>>]
        ELSE [totalExecutions |-> Len(log),
              successRate |-> <<Successful(log) * 100, Len(log)>>,
              mostUsedTools |-> MostUsedTools(log)]

GetExecutionStats ==
    /\ pc = "idle"
    /\ pc' = "returned"
    /\ frame' = [op |-> "getExecutionStats", ret |-> ExecutionStats(executionLog)]
    /\ UNCHANGED <<tools, executionLog, returned, repResults, report>>
    /\ UNCHANGED analyzerVars

(***************************************************************************)
(* generateAccessibilityReport                                             *)
(***************************************************************************)
\* results.flatMap(result => result.issuesFound)
RECURSIVE AllIssues(_, _)
AllIssues(results, n) ==
    IF n = 0 THEN <<>> ELSE AllIssues(results, n - 1) \o results[n].issuesFound

\* results.flatMap(result => result.fixesApplied)
RECURSIVE AllFixes(_, _)
AllFixes(results, n) ==
    IF n = 0 THEN <<>> ELSE AllFixes(results, n - 1) \o results[n].fixesApplied

\* Mutant of IssuesOf: only the last envelope's issues are taken.
IssuesOfLastEnvelope(results) ==
    IF Len(results) = 0 THEN <<>> ELSE results[Len(results)].issuesFound

IssuesOf(results) == AllIssues(results, Len(results))

FixesOf(results) == AllFixes(results, Len(results))

CountSeverity(issues, sev) ==
    Cardinality({i \in 1..Len(issues) : issues[i].severity = sev})

\* Mutant of AppliedFixes: the filter is negated.
NotAppliedFixes(fixes) == Cardinality({i \in 1..Len(fixes) : ~fixes[i].applied})

AppliedFixes(fixes) == Cardinality({i \in 1..Len(fixes) : fixes[i].applied})

\* critical = 4 points, high = 3, medium = 2, low = 1
MaxScore(issues) ==
      CountSeverity(issues, "critical") * 4 + CountSeverity(issues, "high") * 3
    + CountSeverity(issues, "medium") * 2 + CountSeverity(issues, "low")

\* Mutant of AchievedScore: every proposed fix restores 2 points.
AchievedScoreOfProposed(issues, fixes) == Len(fixes) * 2

\* Math.max(0, maxScore - 4*critical - 3*high - 2*medium - low + 2*appliedFixes)
AchievedScore(issues, fixes) ==
    LET raw == MaxScore(issues)
               - CountSeverity(issues, "critical") * 4 - CountSeverity(issues, "high") * 3
               - CountSeverity(issues, "medium") * 2 - CountSeverity(issues, "low")
               + AppliedFixes(fixes) * 2
    IN  IF raw > 0 THEN raw ELSE 0

\* Math.round((achieved / max) * 100) for achieved >= 0 and max > 0: the nearest
\* integer, a half rounding up.  Exact arithmetic stands for the double arithmetic.
RoundPercent(achieved, max) == (200 * achieved + max) \div (2 * max)

ComplianceScore(results) ==
    LET issues == IssuesOf(results)
        fixes == FixesOf(results)
    IN  IF MaxScore(issues) > 0
            THEN RoundPercent(AchievedScore(issues, fixes), MaxScore(issues))
            ELSE 100

\* The numbers of the returned report; its sentences are built from them.
GenerateAccessibilityReport(results) ==
    LET issues == IssuesOf(results)
        fixes == FixesOf(results)
    IN  [complianceScore |-> ComplianceScore(results),
         totalIssues |-> Len(issues),
         appliedFixes |-> AppliedFixes(fixes),
         pendingFixes |-> Len(fixes) - AppliedFixes(fixes),
         tools |-> Len(results)]

(***************************************************************************)
(* Callers of generateAccessibilityReport: each builds or rearranges the   *)
(* envelope list it holds and asks for the report of the new list.         *)
(***************************************************************************)
EmptyEnvelope ==
    [toolName |-> "link_text", success |-> TRUE, issuesFound |-> <<>>,
     fixesApplied |-> <<>>, error |-> NoError]

ReportOn(results) ==
    /\ repResults' = results
    /\ report' = GenerateAccessibilityReport(results)
    /\ UNCHANGED <<tools, executionLog, pc, frame, returned>>
    /\ UNCHANGED analyzerVars

RemoveAt(s, j) == SubSeq(s, 1, j - 1) \o SubSeq(s, j + 1, Len(s))

GenerateReport == ReportOn(repResults)

ReportWithEnvelope ==
    /\ Len(repResults) < MaxEnvelopes
    /\ ReportOn(Append(repResults, EmptyEnvelope))

ReportWithIssue(e, sev) ==
    /\ Len(IssuesOf(repResults)) < MaxIssues
    /\ ReportOn([repResults EXCEPT ![e].issuesFound = Append(@, Issue(sev))])

ReportWithFix(e, isApplied) ==
    /\ Len(FixesOf(repResults)) < MaxFixes
    /\ ReportOn([repResults EXCEPT ![e].fixesApplied = Append(@, Fix(isApplied))])

ReportAfterApplying(e, j) ==
    /\ ~repResults[e].fixesApplied[j].applied
    /\ ReportOn([repResults EXCEPT ![e].fixesApplied[j].applied = TRUE])

ReportOnSwapped(e) ==
    ReportOn([repResults EXCEPT ![e] = repResults[e + 1], ![e + 1] = repResults[e]])

ReportOnMovedIssue(e, j, to) ==
    /\ e # to
    /\ ReportOn([repResults EXCEPT
                    ![e].issuesFound = RemoveAt(@, j),
                    ![to].issuesFound = Append(@, repResults[e].issuesFound[j])])

ReportOnMovedFix(e, j, to) ==
    /\ e # to
    /\ ReportOn([repResults EXCEPT
                    ![e].fixesApplied = RemoveAt(@, j),
                    ![to].fixesApplied = Append(@, repResults[e].fixesApplied[j])])

(***************************************************************************)
(* The analyzers' execute.  An analyzer reads the context's text through   *)
(* pattern matching; a document is modelled by what that matching finds    *)
(* in it (images mentioned, tables, links, headings, file name).  What the *)
(* analyzer's environment does during one call is the call's "env": the    *)
(* values Math.random returns (draws), the internal step that throws, if   *)
(* any (faultStep, faultAt), and the fix-generator calls that reject       *)
(* (failedItems, numbered in call order).                                  *)
(***************************************************************************)
\* AccessibilityIssue with the fields that carry content: detail stands for the
\* variable parts of description and location.
AnalyzerIssue(type, sev, criteria, detail) ==
    [type |-> type, severity |-> sev, wcagCriteria |-> criteria, detail |-> detail]

\* AccessibilityFix; detail stands for description, beforeValue and afterValue.
AnalyzerFix(type, improvement, detail) ==
    [type |-> type, applied |-> FALSE, wcagImprovement |-> improvement, detail |-> detail]

\* The success envelope an execute returns.
Succeeded(issues, fixes) ==
    [kind |-> "returns", success |-> TRUE, issuesFound |-> issues,
     fixesApplied |-> fixes, error |-> NoError]

\* Mutant of Caught: the catch block returns fresh lists.
CaughtEmpty(issues, fixes, message) ==
    [kind |-> "returns", success |-> FALSE, issuesFound |-> <<>>,
     fixesApplied |-> <<>>, error |-> message]

\* The catch block of an execute: the lists gathered so far and the message.
Caught(issues, fixes, message) ==
    [kind |-> "returns", success |-> FALSE, issuesFound |-> issues,
     fixesApplied |-> fixes, error |-> message]

\* error.message of the failure thrown by an internal step.
FaultMessage(step) == <<step, "failed">>

Min(a, b) == IF a <= b THEN a ELSE b

Max(a, b) == IF a >= b THEN a ELSE b

(***************************************************************************)
(* ImageAltTextTool                                                        *)
(***************************************************************************)
ImageSupportedCriteria == {"1.1.1", "1.4.5", "1.4.9"}

\* extractImageInfo creates at most this many images.
ImageLimit == 10

\* The values Math.random yields for one image, as far as the result depends on
\* them: isPrimaryContent, isDecorative and the rounded position.
ImageDraws ==
    [isPrimaryContent : BOOLEAN, isDecorative : BOOLEAN,
     position : {<<100, 100>>, <<399, 599>>}]

\* extractImageInfo: one image per pattern match, each drawn with Math.random;
\* index is 0-based, existingAltText is undefined.
ExtractImageInfo(doc, draws) ==
    [i \in 1..Min(doc.imageCount, ImageLimit) |->
        [index |-> i - 1, page |-> ((i - 1) \div 3) + 1,
         position |-> draws[i].position,
         isPrimaryContent |-> draws[i].isPrimaryContent,
         isDecorative |-> draws[i].isDecorative,
         hasExistingAltText |-> FALSE]]

\* isComplexImage: width is drawn from [400, 600) and height from [300, 450), so
\* the area is at least 120000 and the first disjunct (area > 100000) always holds.
IsComplexImage(image) == TRUE

AnalyzeImage(image) ==
    (IF ~image.hasExistingAltText /\ ~image.isDecorative
        THEN <<AnalyzerIssue("missing_alt_text",
                             IF image.isPrimaryContent THEN "high" ELSE "medium",
                             <<"1.1.1">>,
                             <<"lacks alt-text", image.index + 1, image.page, image.position>>)>>
        ELSE <<>>)
    \o (IF image.hasExistingAltText /\ image.isDecorative
        THEN <<AnalyzerIssue("missing_alt_text", "low", <<"1.1.1">>,
                             <<"decorative with alt-text", image.index + 1, image.page>>)>>
        ELSE <<>>)
    \o (IF image.isPrimaryContent /\ IsComplexImage(image)
        THEN <<AnalyzerIssue("missing_alt_text", "medium", <<"1.1.1">>,
                             <<"complex image", image.index + 1, image.page>>)>>
        ELSE <<>>)

NeedsAltText(image) ==
    ~image.hasExistingAltText /\ ~image.isDecorative /\ image.isPrimaryContent

\* generateAltText: the alt-text is computed from the document's text alone.
GenerateAltText(image) ==
    AnalyzerFix("alt_text_generation", <<"1.1.1">>, <<image.index + 1>>)

\* The inner catch of the loop: the failure is logged and the loop goes on.
\* next is what the rest of the loop returns.
AltTextFailed(issues, fixes, k, next) == next

\* The for loop of execute from the k-th image on.
RECURSIVE ImageLoop(_, _, _, _, _, _)
ImageLoop(images, k, issues, fixes, llmProvider, env) ==
    IF k > Len(images) THEN Succeeded(issues, fixes)
    ELSE IF env.faultStep = "analyzeImage" /\ env.faultAt = k
        THEN Caught(issues, fixes, FaultMessage("analyzeImage"))
    ELSE LET found == issues \o AnalyzeImage(images[k])
         IN  IF llmProvider /\ NeedsAltText(images[k])
                 THEN IF k \in env.failedItems
                          THEN AltTextFailed(found, fixes, k,
                                   ImageLoop(images, k + 1, found, fixes, llmProvider, env))
                          ELSE ImageLoop(images, k + 1, found,
                                         Append(fixes, GenerateAltText(images[k])),
                                         llmProvider, env)
                 ELSE ImageLoop(images, k + 1, found, fixes, llmProvider, env)

ImageExecute(doc, llmProvider, env) ==
    IF env.faultStep = "analyze"
        THEN Caught(<<>>, <<>>, FaultMessage("analyze"))
        ELSE LET images == ExtractImageInfo(doc, env.draws)
             IN  IF Len(images) = 0 THEN Succeeded(<<>>, <<>>)
                 ELSE ImageLoop(images, 1, <<>>, <<>>, llmProvider, env)

(***************************************************************************)
(* MetadataEnhancerTool                                                    *)
(***************************************************************************)
MetadataSupportedCriteria == {"1.3.1", "3.1.1", "3.1.2"}

\* extractCurrentMetadata: the title is the file name without its extension when
\* that is longer than 5 characters; the language is the context's; author,
\* subject and keywords are never set and tagged is false.
ExtractCurrentMetadata(doc) ==
    [hasTitle |-> doc.titleKind # "short",
     titleIsGeneric |-> doc.titleKind = "generic",
     hasLanguage |-> doc.hasLanguage,
     hasAuthor |-> FALSE, hasSubject |-> FALSE, hasKeywords |-> FALSE, tagged |-> FALSE]

FindMissingMetadata(metadata) ==
    (IF ~metadata.hasTitle THEN <<"title">> ELSE <<>>)
    \o (IF ~metadata.hasAuthor THEN <<"author">> ELSE <<>>)
    \o (IF ~metadata.hasSubject THEN <<"subject">> ELSE <<>>)
    \o (IF ~metadata.hasLanguage THEN <<"language">> ELSE <<>>)
    \o (IF ~metadata.hasKeywords THEN <<"keywords">> ELSE <<>>)
    \o (IF ~metadata.tagged THEN <<"accessibility_tags">> ELSE <<>>)

\* findInadequateMetadata: a title that contains "untitled" or "document"; subject
\* and keywords are absent, so their checks are skipped.
FindInadequateMetadata(metadata) ==
    IF metadata.hasTitle /\ metadata.titleIsGeneric THEN <<"title">> ELSE <<>>

Includes(seq, x) == \E i \in 1..Len(seq) : seq[i] = x

AnalyzeMetadata(doc) ==
    [current |-> ExtractCurrentMetadata(doc),
     missing |-> FindMissingMetadata(ExtractCurrentMetadata(doc)),
     inadequate |-> FindInadequateMetadata(ExtractCurrentMetadata(doc))]

MetadataIssueIf(condition, sev, criteria, what) ==
    IF condition THEN <<AnalyzerIssue("metadata", sev, criteria, <<what>>)>> ELSE <<>>

\* Mutant of IdentifyMetadataIssues: only the title and the language are checked.
IdentifyTitleAndLanguageIssues(analysis) ==
    MetadataIssueIf(Includes(analysis.missing, "title"), "high", <<"1.3.1">>, "no title")
    \o MetadataIssueIf(Includes(analysis.inadequate, "title"), "medium", <<"1.3.1">>,
                       "inadequate title")
    \o MetadataIssueIf(Includes(analysis.missing, "language"), "high", <<"3.1.1">>,
                       "no language")

IdentifyMetadataIssues(analysis) ==
    MetadataIssueIf(Includes(analysis.missing, "title"), "high", <<"1.3.1">>, "no title")
    \o MetadataIssueIf(Includes(analysis.inadequate, "title"), "medium", <<"1.3.1">>,
                       "inadequate title")
    \o MetadataIssueIf(Includes(analysis.missing, "language"), "high", <<"3.1.1">>,
                       "no language")
    \o MetadataIssueIf(Includes(analysis.missing, "author"), "medium", <<"1.3.1">>,
                       "no author")
    \o MetadataIssueIf(Includes(analysis.missing, "subject"), "medium", <<"1.3.1">>,
                       "no subject")
    \o MetadataIssueIf(Includes(analysis.missing, "keywords"), "low", <<"1.3.1">>,
                       "no keywords")
    \o MetadataIssueIf(Includes(analysis.missing, "accessibility_tags"), "high",
                       <<"1.3.1">>, "not tagged")

MetadataFixIf(condition, type, improvement) ==
    IF condition THEN <<AnalyzerFix(type, improvement, <<type>>)>> ELSE <<>>

\* generateMetadataEnhancements: computed from the analysis, no generator call.
GenerateMetadataEnhancements(analysis) ==
    MetadataFixIf(Includes(analysis.missing, "title") \/ Includes(analysis.inadequate, "title"),
                  "metadata_title", <<"1.3.1">>)
    \o MetadataFixIf(Includes(analysis.missing, "subject")
                         \/ Includes(analysis.inadequate, "subject"),
                     "metadata_subject", <<"1.3.1">>)
    \o MetadataFixIf(Includes(analysis.missing, "keywords")
                         \/ Includes(analysis.inadequate, "keywords"),
                     "metadata_keywords", <<"1.3.1">>)
    \o MetadataFixIf(Includes(analysis.missing, "language"), "metadata_language", <<"3.1.1">>)
    \o MetadataFixIf(Includes(analysis.missing, "accessibility_tags"),
                     "metadata_accessibility", <<"1.3.1">>)

\* Mutant of FixesRejected: a generator call that rejects fails the whole step.
FixesRejectedByAnyItem(env) == env.faultStep = "fixes" \/ env.failedItems # {}

\* await this.generate...Fixes(...) rejects only when something outside the
\* per-item try blocks throws.
FixesRejected(env) == env.faultStep = "fixes"

\* The body shared by the metadata, heading, table and link analyzers' execute
\* once the analysis is made: push the issues, then, with a provider and at
\* least one issue, await the fixes.
IssuesThenFixes(issues, fixes, llmProvider, env) ==
    IF llmProvider /\ Len(issues) > 0
        THEN IF FixesRejected(env)
                 THEN Caught(issues, <<>>, FaultMessage("fixes"))
                 ELSE Succeeded(issues, fixes)
        ELSE Succeeded(issues, <<>>)

MetadataExecute(doc, llmProvider, env) ==
    IF env.faultStep = "analyze"
        THEN Caught(<<>>, <<>>, FaultMessage("analyze"))
        ELSE IssuesThenFixes(IdentifyMetadataIssues(AnalyzeMetadata(doc)),
                             GenerateMetadataEnhancements(AnalyzeMetadata(doc)),
                             llmProvider, env)

(***************************************************************************)
(* HeadingStructureTool: heading detection.  A text is the sequence of its *)
(* lines (textContent.split('\n')), a line the sequence of its characters. *)
(***************************************************************************)
LowerLetters == <<"a", "b", "c", "d", "e", "f", "g", "h", "i", "j", "k", "l", "m", "n", "o", "p", "q", "r", "s", "t", "u", "v", "w", "x", "y", "z">>

UpperLetters == <<"A", "B", "C", "D", "E", "F", "G", "H", "I", "J", "K", "L", "M", "N", "O", "P", "Q", "R", "S", "T", "U", "V", "W", "X", "Y", "Z">>

Digits == {"0", "1", "2", "3", "4", "5", "6", "7", "8", "9"}

\* \s, as far as a line without line terminators can contain it.
Whitespace == {" ", "\t"}

IsLower(c) == \E i \in 1..Len(LowerLetters) : LowerLetters[i] = c

IsUpper(c) == \E i \in 1..Len(UpperLetters) : UpperLetters[i] = c

\* String.prototype.toLowerCase on one character.
ToLower(c) ==
    IF IsUpper(c) THEN LowerLetters[CHOOSE i \in 1..Len(UpperLetters) : UpperLetters[i] = c]
    ELSE c

\* String.prototype.toUpperCase on one character.
ToUpper(c) ==
    IF IsLower(c) THEN UpperLetters[CHOOSE i \in 1..Len(LowerLetters) : LowerLetters[i] = c]
    ELSE c

ToLowerCase(str) == [i \in 1..Len(str) |-> ToLower(str[i])]

ToUpperCase(str) == [i \in 1..Len(str) |-> ToUpper(str[i])]

\* String.prototype.trim
Trim(str) ==
    LET inked == {i \in 1..Len(str) : str[i] \notin Whitespace}
    IN  IF inked = {} THEN <<>>
        ELSE SubSeq(str, CHOOSE i \in inked : \A j \in inked : i <= j,
                         CHOOSE i \in inked : \A j \in inked : i >= j)

\* Length of the longest run of characters of the class that starts at position from.
RECURSIVE RunLength(_, _, _)
RunLength(str, from, class) ==
    IF from <= Len(str) /\ str[from] \in class
        THEN 1 + RunLength(str, from + 1, class)
        ELSE 0

CharAt(str, i) == IF i \in 1..Len(str) THEN str[i] ELSE "end"

\* /^\d+\.?\s/.test(line): a digit can match neither \. nor \s, so only the
\* whole run of leading digits can be followed by the rest of the pattern.
IsNumberedLine(line) ==
    LET n == RunLength(line, 1, Digits)
    IN  /\ n >= 1
        /\ \/ CharAt(line, n + 1) \in Whitespace
           \/ CharAt(line, n + 1) = "." /\ CharAt(line, n + 2) \in Whitespace

\* (line.match(/\./g) || []).length
CountDots(line) == Cardinality({i \in 1..Len(line) : line[i] = "."})

StartsWithIgnoringCase(line, word) ==
    /\ Len(line) >= Len(word)
    /\ ToLowerCase(SubSeq(line, 1, Len(word))) = word

\* /^(chapter|section|part)\s+\d+/i.test(line)
IsChapterLine(line) ==
    \E word \in {<<"c", "h", "a", "p", "t", "e", "r">>,
                 <<"s", "e", "c", "t", "i", "o", "n">>,
                 <<"p", "a", "r", "t">>} :
        /\ StartsWithIgnoringCase(line, word)
        /\ LET spaces == RunLength(line, Len(word) + 1, Whitespace)
           IN  spaces >= 1 /\ CharAt(line, Len(word) + spaces + 1) \in Digits

\* text.split(/\s+/) of a trimmed, non-empty line: the first characters of its words.
WordStarts(line) ==
    {i \in 1..Len(line) : line[i] \notin Whitespace
                          /\ (i = 1 \/ line[i - 1] \in Whitespace)}

\* isTitleCase: more than 70% of the words start with a character that
\* toUpperCase leaves alone.
IsTitleCase(line) ==
    LET capitalized == {i \in WordStarts(line) : line[i] = ToUpper(line[i])}
    IN  10 * Cardinality(capitalized) > 7 * Cardinality(WordStarts(line))

EndsWithDot(line) == Len(line) > 0 /\ line[Len(line)] = "."

\* estimateHeadingLevelFromContext: index / lines.length against 0.1, 0.3 and 0.6.
EstimateHeadingLevelFromContext(lines, index) ==
    IF 10 * index < Len(lines) THEN 1
    ELSE IF 10 * index < 3 * Len(lines) THEN 2
    ELSE IF 10 * index < 6 * Len(lines) THEN 3
    ELSE 4

\* detectHeadingLevel(line, lines, index): line is lines[index] trimmed, index is
\* 0-based; 0 means "not a heading".
DetectHeadingLevel(line, lines, index) ==
    IF IsNumberedLine(line) /\ Len(line) < 100
        THEN Min(CountDots(line) + 1, 6)
    ELSE IF IsChapterLine(line)
        THEN 1
    ELSE IF line = ToUpperCase(line) /\ Len(line) > 3 /\ Len(line) < 80
        THEN EstimateHeadingLevelFromContext(lines, index)
    ELSE IF IsTitleCase(line) /\ Len(line) < 100 /\ ~EndsWithDot(line)
        THEN EstimateHeadingLevelFromContext(lines, index)
    ELSE IF index < Len(lines) - 1 /\ Trim(lines[index + 2]) = <<>> /\ Len(line) < 80
        THEN EstimateHeadingLevelFromContext(lines, index)
    ELSE 0

\* Mutant of ExtractHeadingsUpTo: a line that is empty once trimmed is not skipped.
RECURSIVE ExtractHeadingsUpToWithBlanks(_, _)
ExtractHeadingsUpToWithBlanks(lines, n) ==
    IF n = 0 THEN <<>>
    ELSE LET line == Trim(lines[n])
             level == DetectHeadingLevel(line, lines, n - 1)
         IN  IF level = 0
                 THEN ExtractHeadingsUpToWithBlanks(lines, n - 1)
                 ELSE Append(ExtractHeadingsUpToWithBlanks(lines, n - 1),
                             [text |-> line, level |-> level])

\* extractHeadings: the loop over the first n lines.
RECURSIVE ExtractHeadingsUpTo(_, _)
ExtractHeadingsUpTo(lines, n) ==
    IF n = 0 THEN <<>>
    ELSE LET line == Trim(lines[n])
             level == DetectHeadingLevel(line, lines, n - 1)
         IN  IF Len(line) = 0 \/ level = 0
                 THEN ExtractHeadingsUpTo(lines, n - 1)
                 ELSE Append(ExtractHeadingsUpTo(lines, n - 1),
                             [text |-> line, level |-> level])

ExtractHeadings(lines) == ExtractHeadingsUpTo(lines, Len(lines))

(***************************************************************************)
(* HeadingStructureTool: analysis of the headings found                    *)
(***************************************************************************)
HeadingSupportedCriteria == {"1.3.1", "2.4.1", "2.4.6", "2.4.10"}

\* hasLogicalHeadingStructure: currentLevel = heading.level
StepsFrom(currentLevel, level) == level

\* hasLogicalHeadingStructure: the loop from the k-th heading on.
RECURSIVE LogicalFrom(_, _, _)
LogicalFrom(headings, k, currentLevel) ==
    IF k > Len(headings) THEN TRUE
    ELSE IF headings[k].level > currentLevel + 1 THEN FALSE
    ELSE LogicalFrom(headings, k + 1, StepsFrom(currentLevel, headings[k].level))

HasLogicalHeadingStructure(headings) ==
    IF Len(headings) = 0 THEN TRUE ELSE LogicalFrom(headings, 1, 0)

\* Mutant of SkippedBelow: the level just under the heading is not reported.
SkippedBelowButOne(maxLevel, level) ==
    IF level > maxLevel + 1 THEN (maxLevel + 1)..(level - 2) ELSE {}

\* findSkippedLevels: the levels one heading skips, given the deepest level before.
SkippedBelow(maxLevel, level) ==
    IF level > maxLevel + 1 THEN (maxLevel + 1)..(level - 1) ELSE {}

\* findSkippedLevels: the levels pushed by the first n headings, and the
\* deepest level among them.
RECURSIVE SkippedUpTo(_, _)
SkippedUpTo(headings, n) ==
    IF n = 0 THEN [skipped |-> {}, maxLevel |-> 0]
    ELSE LET before == SkippedUpTo(headings, n - 1)
         IN  [skipped |-> before.skipped
                              \cup SkippedBelow(before.maxLevel, headings[n].level),
              maxLevel |-> Max(before.maxLevel, headings[n].level)]

\* Array.prototype.sort without a comparator orders by the elements' string
\* forms; levels are single digits, for which that is the numeric order.
RECURSIVE SortedLevels(_)
SortedLevels(levels) ==
    IF levels = {} THEN <<>>
    ELSE LET least == CHOOSE l \in levels : \A m \in levels : l <= m
         IN  <<least>> \o SortedLevels(levels \ {least})

FindSkippedLevels(headings) == SortedLevels(SkippedUpTo(headings, Len(headings)).skipped)

\* findDuplicateHeadings: the texts of the headings whose lower-cased text was
\* seen before, each once, in the order they were added to the Set.
RECURSIVE DuplicatesUpTo(_, _)
DuplicatesUpTo(headings, n) ==
    IF n = 0 THEN <<>>
    ELSE LET before == DuplicatesUpTo(headings, n - 1)
             seenBefore == \E j \in 1..(n - 1) :
                               Trim(ToLowerCase(headings[j].text))
                                   = Trim(ToLowerCase(headings[n].text))
         IN  IF seenBefore /\ ~Includes(before, headings[n].text)
                 THEN Append(before, headings[n].text)
                 ELSE before

FindDuplicateHeadings(headings) == DuplicatesUpTo(headings, Len(headings))

AnalyzeHeadingStructure(lines) ==
    LET headings == ExtractHeadings(lines)
        IsEmpty(h) == Len(Trim(h.text)) = 0
        IsH1(h) == h.level = 1
    IN  [headings |-> headings,
         hasLogicalStructure |-> HasLogicalHeadingStructure(headings),
         skippedLevels |-> FindSkippedLevels(headings),
         duplicateHeadings |-> FindDuplicateHeadings(headings),
         emptyHeadings |-> Len(SelectSeq(headings, IsEmpty)),
         tooManyH1s |-> Len(SelectSeq(headings, IsH1)) > 1]

HeadingIssueIf(condition, sev, criteria, detail) ==
    IF condition THEN <<AnalyzerIssue("heading_structure", sev, criteria, detail)>> ELSE <<>>

IdentifyStructureIssues(analysis, doc) ==
    HeadingIssueIf(Len(analysis.headings) = 0 /\ doc.textLength > 2000, "high",
                   <<"1.3.1", "2.4.1">>, <<"no headings">>)
    \o HeadingIssueIf(analysis.tooManyH1s, "medium", <<"1.3.1">>, <<"multiple H1">>)
    \o HeadingIssueIf(Len(analysis.skippedLevels) > 0, "medium", <<"1.3.1">>,
                      <<"skips levels", analysis.skippedLevels>>)
    \o HeadingIssueIf(Len(analysis.duplicateHeadings) > 0, "low", <<"2.4.6">>,
                      <<"duplicate headings", Len(analysis.duplicateHeadings)>>)
    \o HeadingIssueIf(analysis.emptyHeadings > 0, "high", <<"1.3.1", "2.4.6">>,
                      <<"empty headings", analysis.emptyHeadings>>)
    \o HeadingIssueIf(~analysis.hasLogicalStructure, "medium", <<"1.3.1", "2.4.10">>,
                      <<"not logically organized">>)

\* try { fix = await generate...; fixes.push(fix) } catch { console.warn(...) }
GeneratedUnless(failed, fix) == IF failed THEN <<>> ELSE <<fix>>

\* generateStructureFixes: generator call 1 is generateOptimizedStructure, call 2
\* generateUniqueHeadings.
GenerateStructureFixes(analysis, env) ==
    (IF ~analysis.hasLogicalStructure \/ Len(analysis.skippedLevels) > 0
        THEN GeneratedUnless(1 \in env.failedItems,
                 AnalyzerFix("heading_structure_optimization",
                             <<"1.3.1", "2.4.1", "2.4.6">>, <<Len(analysis.headings)>>))
        ELSE <<>>)
    \o (IF Len(analysis.duplicateHeadings) > 0
        THEN GeneratedUnless(2 \in env.failedItems,
                 AnalyzerFix("heading_uniqueness", <<"2.4.6">>, analysis.duplicateHeadings))
        ELSE <<>>)

HeadingExecute(doc, llmProvider, env) ==
    IF env.faultStep = "analyze"
        THEN Caught(<<>>, <<>>, FaultMessage("analyze"))
        ELSE IssuesThenFixes(IdentifyStructureIssues(AnalyzeHeadingStructure(doc.lines), doc),
                             GenerateStructureFixes(AnalyzeHeadingStructure(doc.lines), env),
                             llmProvider, env)

(***************************************************************************)
(* TableAccessibilityTool.  A document's tables are what extractTableInfo  *)
(* parses out of its text: for each, whether it is a data table, whether   *)
(* its first row was taken for headers, and its size.                      *)
(***************************************************************************)
TableSupportedCriteria == {"1.3.1", "1.3.2", "2.4.6"}

\* extractTableInfo returns at most this many tables.
TableLimit == 10

Take(seq, n) == SubSeq(seq, 1, Min(n, Len(seq)))

\* Mutant of ExtractTableInfo: every table found is returned.
ExtractTableInfoUnlimited(doc) ==
    [i \in 1..Len(doc.tables) |->
        [index |-> i - 1, isDataTable |-> doc.tables[i].isDataTable,
         hasHeaders |-> doc.tables[i].hasHeaders, hasCaption |-> FALSE,
         rows |-> doc.tables[i].rows, columns |-> doc.tables[i].columns]]

\* extractTableInfo: index is 0-based; hasCaption is always false.
ExtractTableInfo(doc) ==
    Take([i \in 1..Len(doc.tables) |->
              [index |-> i - 1, isDataTable |-> doc.tables[i].isDataTable,
               hasHeaders |-> doc.tables[i].hasHeaders, hasCaption |-> FALSE,
               rows |-> doc.tables[i].rows, columns |-> doc.tables[i].columns]],
         TableLimit)

\* isComplexTable; a header cell never contains the separator it was split on.
IsComplexTable(table) == table.columns > 5 \/ table.rows > 10

AnalyzeTableStructure(doc) ==
    LET tables == ExtractTableInfo(doc)
        WithoutHeaders(t) == t.isDataTable /\ ~t.hasHeaders
        WithoutCaption(t) == t.isDataTable /\ ~t.hasCaption
    IN  [tables |-> tables,
         tablesWithoutHeaders |-> SelectSeq(tables, WithoutHeaders),
         tablesWithoutCaptions |-> SelectSeq(tables, WithoutCaption),
         complexTables |-> SelectSeq(tables, IsComplexTable)]

IdentifyTableIssues(analysis) ==
    [i \in 1..Len(analysis.tablesWithoutHeaders) |->
        AnalyzerIssue("table_headers", "high", <<"1.3.1">>,
                      <<"lacks headers", analysis.tablesWithoutHeaders[i].index + 1>>)]
    \o [i \in 1..Len(analysis.tablesWithoutCaptions) |->
        AnalyzerIssue("table_headers", "medium", <<"1.3.1", "2.4.6">>,
                      <<"lacks caption", analysis.tablesWithoutCaptions[i].index + 1>>)]
    \o [i \in 1..Len(analysis.complexTables) |->
        AnalyzerIssue("table_headers", "medium", <<"1.3.1">>,
                      <<"complex table", analysis.complexTables[i].index + 1>>)]

\* The fixes a loop of generator calls pushes, given the fix each call would
\* produce: calls are numbered from first + 1.
RECURSIVE GeneratedFor(_, _, _, _)
GeneratedFor(wanted, n, first, env) ==
    IF n = 0 THEN <<>>
    ELSE GeneratedFor(wanted, n - 1, first, env)
         \o GeneratedUnless((first + n) \in env.failedItems, wanted[n])

\* generateTableFixes: the generateTableHeaders calls come first, then the
\* generateTableCaption calls.
GenerateTableFixes(analysis, env) ==
    LET headers == [i \in 1..Len(analysis.tablesWithoutHeaders) |->
                       AnalyzerFix("table_header_generation", <<"1.3.1">>,
                                   <<analysis.tablesWithoutHeaders[i].index + 1>>)]
        captions == [i \in 1..Len(analysis.tablesWithoutCaptions) |->
                        AnalyzerFix("table_caption_generation", <<"1.3.1", "2.4.6">>,
                                    <<analysis.tablesWithoutCaptions[i].index + 1>>)]
    IN  GeneratedFor(headers, Len(headers), 0, env)
        \o GeneratedFor(captions, Len(captions), Len(headers), env)

TableExecute(doc, llmProvider, env) ==
    IF env.faultStep = "analyze"
        THEN Caught(<<>>, <<>>, FaultMessage("analyze"))
    ELSE IF Len(AnalyzeTableStructure(doc).tables) = 0
        THEN Succeeded(<<>>, <<>>)
    ELSE IssuesThenFixes(IdentifyTableIssues(AnalyzeTableStructure(doc)),
                         GenerateTableFixes(AnalyzeTableStructure(doc), env),
                         llmProvider, env)

(***************************************************************************)
(* LinkTextTool.  A document's links are the matches extractLinkInfo finds *)
(* in its text, in the order found: for each, the matched text, the        *)
(* pattern that matched and what the surrounding line gives as context.    *)
(***************************************************************************)
LinkSupportedCriteria == {"2.4.4", "2.4.9", "3.2.4"}

\* extractLinkInfo keeps the first 50 links.
LinkLimit == 50

\* generateLinkFixes improves the first 10 links of each list.
LinkFixLimit == 10

\* isDescriptiveLinkText: at least two words, at least 4 characters and none of
\* the generic phrases inside.
IsDescriptiveLinkText(link) ==
    link.words >= 2 /\ link.length >= 4 /\ ~link.containsGenericPhrase

\* isGenericLinkText: the lower-cased text is one of the generic phrases.
IsGenericLinkText(link) == link.isGenericPhrase

\* isInternalLink
IsInternalLink(link) == link.hasFragment \/ link.startsWithSlash \/ link.hasLocalhost

\* hasExternalWarning
HasExternalWarning(link) == link.contextHasWarning

\* extractLinkInfo: position is the link's place in the document, which tells
\* two matches of the same text apart.
ExtractLinkInfo(doc) ==
    Take([i \in 1..Len(doc.links) |->
              [position |-> i, text |-> doc.links[i].text,
               length |-> doc.links[i].length,
               isDescriptive |-> IsDescriptiveLinkText(doc.links[i]),
               isGeneric |-> IsGenericLinkText(doc.links[i]),
               isGenericPhrase |-> doc.links[i].isGenericPhrase,
               isExternal |-> doc.links[i].pattern = "url" /\ ~IsInternalLink(doc.links[i]),
               contextHasWarning |-> doc.links[i].contextHasWarning,
               contextLength |-> doc.links[i].contextLength]],
         LinkLimit)

\* findDuplicateLinkTexts: the texts that occur more than once and are longer
\* than 3 characters, in the order of their first occurrence.
RECURSIVE DuplicateTextsUpTo(_, _)
DuplicateTextsUpTo(links, n) ==
    IF n = 0 THEN <<>>
    ELSE LET before == DuplicateTextsUpTo(links, n - 1)
             first == \A j \in 1..(n - 1) : links[j].text # links[n].text
             count == Cardinality({j \in 1..Len(links) : links[j].text = links[n].text})
         IN  IF first /\ count > 1 /\ links[n].length > 3
                 THEN Append(before, links[n].text)
                 ELSE before

FindDuplicateLinkTexts(links) == DuplicateTextsUpTo(links, Len(links))

AnalyzeLinkStructure(doc) ==
    LET links == ExtractLinkInfo(doc)
        Undescriptive(link) == ~link.isDescriptive
        WithoutContext(link) == link.contextLength < 20
        ExternalWithoutWarning(link) == link.isExternal /\ ~HasExternalWarning(link)
    IN  [links |-> links,
         genericLinks |-> SelectSeq(links, IsGenericLinkText),
         undescriptiveLinks |-> SelectSeq(links, Undescriptive),
         duplicateTexts |-> FindDuplicateLinkTexts(links),
         linksWithoutContext |-> SelectSeq(links, WithoutContext),
         externalLinksWithoutWarning |-> SelectSeq(links, ExternalWithoutWarning)]

LinkIssueIf(count, sev, criteria, what) ==
    IF count > 0 THEN <<AnalyzerIssue("link_text", sev, criteria, <<what, count>>)>> ELSE <<>>

IdentifyLinkIssues(analysis) ==
    LinkIssueIf(Len(analysis.genericLinks), "high", <<"2.4.4", "2.4.9">>, "generic text")
    \o LinkIssueIf(Len(analysis.undescriptiveLinks), "medium", <<"2.4.4">>,
                   "insufficient text")
    \o LinkIssueIf(Len(analysis.duplicateTexts), "medium", <<"3.2.4">>, "duplicate text")
    \o LinkIssueIf(Len(analysis.externalLinksWithoutWarning), "low", <<"3.2.1">>,
                   "external without indication")
    \o LinkIssueIf(Len(analysis.linksWithoutContext), "medium", <<"2.4.4">>,
                   "lacking context")

\* generateLinkFixes: the generateImprovedLinkText calls for the generic links
\* come first, then those for the undescriptive links not among the generic
\* ones; the fix for duplicate texts needs no generator call.
GenerateLinkFixes(analysis, env) ==
    LET generic == Take(analysis.genericLinks, LinkFixLimit)
        NotGeneric(link) == ~Includes(analysis.genericLinks, link)
        others == SelectSeq(Take(analysis.undescriptiveLinks, LinkFixLimit), NotGeneric)
        improved == [i \in 1..Len(generic) |->
                        AnalyzerFix("link_text_improvement", <<"2.4.4", "2.4.9">>,
                                    <<"generic", generic[i].position>>)]
        enhanced == [i \in 1..Len(others) |->
                        AnalyzerFix("link_text_improvement", <<"2.4.4">>,
                                    <<"undescriptive", others[i].position>>)]
    IN  GeneratedFor(improved, Len(improved), 0, env)
        \o GeneratedFor(enhanced, Len(enhanced), Len(improved), env)
        \o (IF Len(analysis.duplicateTexts) > 0
                THEN <<AnalyzerFix("link_text_uniqueness", <<"3.2.4">>,
                                   analysis.duplicateTexts)>>
                ELSE <<>>)

LinkExecute(doc, llmProvider, env) ==
    IF env.faultStep = "analyze"
        THEN Caught(<<>>, <<>>, FaultMessage("analyze"))
    ELSE IF Len(AnalyzeLinkStructure(doc).links) = 0
        THEN Succeeded(<<>>, <<>>)
    ELSE IssuesThenFixes(IdentifyLinkIssues(AnalyzeLinkStructure(doc)),
                         GenerateLinkFixes(AnalyzeLinkStructure(doc), env),
                         llmProvider, env)

(***************************************************************************)
(* The five analyzers behind AccessibilityToolInterface                    *)
(***************************************************************************)
\* tool.getSupportedWCAGCriteria() of the tool named name.
SupportedWCAGCriteria(name) ==
    CASE name = "metadata_enhancer"   -> MetadataSupportedCriteria
      [] name = "heading_structure"   -> HeadingSupportedCriteria
      [] name = "image_alttext"       -> ImageSupportedCriteria
      [] name = "table_accessibility" -> TableSupportedCriteria
      [] name = "link_text"           -> LinkSupportedCriteria

\* tool.execute(context, llmProvider) of the tool named name.
Execute(name, doc, llmProvider, env) ==
    CASE name = "metadata_enhancer"   -> MetadataExecute(doc, llmProvider, env)
      [] name = "heading_structure"   -> HeadingExecute(doc, llmProvider, env)
      [] name = "image_alttext"       -> ImageExecute(doc, llmProvider, env)
      [] name = "table_accessibility" -> TableExecute(doc, llmProvider, env)
      [] name = "link_text"           -> LinkExecute(doc, llmProvider, env)

(***************************************************************************)
(* executeTools with the five analyzers registered under their names       *)
(***************************************************************************)
\* executeTools(toolNames, context, llmProvider): the call with a provider.
ExecuteToolsWithProvider(toolNames, ctx) ==
    /\ pc = "idle"
    /\ Len(executionLog) + Len(toolNames) <= MaxLog
    /\ Proceed(RunLoop([NewExecuteFrame(toolNames, ctx) EXCEPT !.llmProvider = TRUE], tools))
    /\ UNCHANGED <<tools, repResults, report>>
    /\ UNCHANGED analyzerVars

\* await tool.execute(context, llmProvider) settles with what the analyzer
\* registered under the name returns in the environment env.
AnalyzerSettles(env) ==
    /\ pc = "awaiting"
    /\ ToolSettles(Execute(frame.orderedTools[frame.idx], frame.context,
                           frame.llmProvider, env))

\* The caller that holds the value of an executeTools call makes the same call
\* again: the same names, context and provider, on the same manager.
ExecuteToolsAgain ==
    /\ pc = "returned"
    /\ frame.op = "executeTools"
    /\ ~frame.repeats
    /\ Len(executionLog) + Len(frame.requested) <= MaxLog
    /\ Proceed(RunLoop([NewExecuteFrame(frame.requested, frame.context)
                           EXCEPT !.llmProvider = frame.llmProvider,
                                  !.repeats = TRUE,
                                  !.first = frame.ret.results], tools))
    /\ UNCHANGED <<tools, repResults, report>>
    /\ UNCHANGED analyzerVars

(***************************************************************************)
(* executeTools invocations that overlap: a caller starts one while another *)
(* is suspended on its await.  Each invocation has its own results,         *)
(* totalIssues, totalFixes and overallSuccess; the registry and the         *)
(* execution log are the manager's.                                         *)
(***************************************************************************)
\* Mutant of ResumedFrame: the locals are those of the invocation started last.
ResumedFrameOfLastCall(c) == calls[Len(calls)]

\* The locals a settled tool.execute resumes with: those of its own invocation.
ResumedFrame(c) == calls[c]

LoopEnded(f) == f.idx > Len(f.orderedTools)

\* The invocation after its loop has run up to the next await, or to the return.
Suspended(f) ==
    IF LoopEnded(f) THEN [f EXCEPT !.ret = ExecuteToolsReturn(f)]
                    ELSE [f EXCEPT !.executed = Append(@, f.orderedTools[f.idx])]

\* this.executionLog.push(...results), reached in the step that ends the loop.
StoreWhenEnded(f) ==
    /\ executionLog' = IF LoopEnded(f) THEN StoreExecutionLog(executionLog, f.results)
                                        ELSE executionLog
    /\ returned' = IF LoopEnded(f) THEN returned \o f.results ELSE returned

\* A caller starts an invocation: it runs up to its first await or its return.
StartExecuteTools(toolNames, ctx) ==
    /\ pc = "idle"
    /\ Len(calls) < MaxCalls
    /\ LET f == RunLoop(NewExecuteFrame(toolNames, ctx), tools)
       IN  /\ calls' = Append(calls, Suspended(f))
           /\ StoreWhenEnded(f)
    /\ UNCHANGED <<tools, pc, frame, repResults, report, execution, extraction, audit>>

\* The tool.execute that invocation c awaits settles, and c resumes up to its
\* next await or its return.
ExecuteToolsResumes(c, outcome) ==
    /\ c \in 1..Len(calls)
    /\ calls[c].ret = Pending
    /\ LET own == ResumedFrame(c)
           toolName == calls[c].orderedTools[calls[c].idx]
           seen == [own EXCEPT !.settled = Append(@, outcome)]
           f == RunLoop(IF outcome.kind = "returns"
                            THEN RecordResult(seen, ToolResult(toolName, outcome))
                            ELSE RecordError(seen, toolName, outcome.error),
                        tools)
       IN  /\ calls' = [calls EXCEPT ![c] = Suspended(f)]
           /\ StoreWhenEnded(f)
    /\ UNCHANGED <<tools, pc, frame, repResults, report, execution, extraction, audit>>

\* The order in which the caller of the manager registers the analyzers, that
\* of the list in initializeTools.
AnalyzerOrder ==
    <<"image_alttext", "heading_structure", "table_accessibility", "link_text",
      "metadata_enhancer">>

\* The caller's next registerTool call.
RegisterNextAnalyzer ==
    /\ pc = "idle"
    /\ tools = SubSeq(AnalyzerOrder, 1, Len(tools))
    /\ Len(tools) < Len(AnalyzerOrder)
    /\ tools' = ToolsSet(tools, AnalyzerOrder[Len(tools) + 1])
    /\ UNCHANGED <<executionLog, pc, frame, returned, repResults, report>>
    /\ UNCHANGED analyzerVars

\* The caller hands the recommendation it awaited to executeTools, with the
\* same context and no provider.
ExecuteRecommended ==
    /\ pc = "returned"
    /\ frame.op = "analyzeAndRecommendTools"
    /\ Proceed(RunLoop(NewExecuteFrame(frame.ret.recommendedTools, frame.context), tools))
    /\ UNCHANGED <<tools, repResults, report>>
    /\ UNCHANGED analyzerVars

\* The caller hands the envelopes executeTools returned to
\* generateAccessibilityReport.
ReportOnReturned ==
    /\ pc = "returned"
    /\ frame.op = "executeTools"
    /\ pc' = "reported"
    /\ repResults' = frame.ret.results
    /\ report' = GenerateAccessibilityReport(frame.ret.results)
    /\ UNCHANGED <<tools, executionLog, frame, returned>>
    /\ UNCHANGED analyzerVars

(***************************************************************************)
(* The manager the node imports (nodes/PdfAccessibility/tools): its        *)
(* executeTools ignores its arguments and returns a fixed value.           *)
(***************************************************************************)
Phase3Fix ==
    [type |-> "architecture_foundation", applied |-> TRUE,
     wcagImprovement |-> <<"1.3.1", "2.4.4", "2.4.6", "3.1.1">>, detail |-> <<>>]

Phase3Return ==
    [results |-> <<[toolName |-> "Phase3Foundation", success |-> TRUE,
                    issuesFound |-> <<>>, fixesApplied |-> <<Phase3Fix>>,
                    error |-> NoError]>>,
     summary |-> [totalIssues |-> 0, totalFixes |-> 1, success |-> TRUE]]

\* executeTools(_toolNames, _context, _llmProvider) of that manager: no await,
\* no argument and no field of the manager read, nothing written.
Phase3ExecuteTools(toolNames, ctx, llmProvider) ==
    /\ pc = "idle"
    /\ pc' = "returned"
    /\ frame' = [op |-> "phase3.executeTools", ret |-> Phase3Return]
    /\ UNCHANGED <<tools, executionLog, returned, repResults, report>>
    /\ UNCHANGED analyzerVars

(***************************************************************************)
(* AdvancedReportingEngine: the audit report and its JSON export.  The     *)
(* exported text is modelled by its tree, every leaf being the token       *)
(* JSON.stringify writes for it: a sequence of characters.                 *)
(***************************************************************************)
\* Mutant of DetermineComplianceStatus: the thresholds themselves fall short.
DetermineComplianceStatusAbove(score) ==
    IF score > 90 THEN "compliant"
    ELSE IF score > 70 THEN "partial"
    ELSE "non_compliant"

DetermineComplianceStatus(score) ==
    IF score >= 90 THEN "compliant"
    ELSE IF score >= 70 THEN "partial"
    ELSE "non_compliant"

\* Mutant of OverallScore: the summary reports the score before the run.
OverallScoreBefore(beforeScore, afterScore) == beforeScore

\* generateAuditReport: overall_score: afterScore
OverallScore(beforeScore, afterScore) == afterScore

\* Mutant of TotalIssues: the summary counts no issue at all.
TotalIssuesNone(allIssues) == 0

\* generateAuditReport: total_issues: allIssues.length
TotalIssues(allIssues) == Len(allIssues)

\* A number that is not finite: 0 / 0 and x / 0.
NotFinite == [finite |-> FALSE]

\* Math.round(((afterScore - beforeScore) / beforeScore) * 100) for integer
\* scores; Math.round takes halves upwards; a division by 0 gives NaN or an
\* infinity.
ImprovementPercentage(beforeScore, afterScore) ==
    IF beforeScore = 0 THEN NotFinite
    ELSE [finite |-> TRUE,
          value |-> (200 * (afterScore - beforeScore) + beforeScore) \div (2 * beforeScore)]

\* generateAuditReport, as far as the summary, the comparison and the
\* envelopes go; audit_date is the time of the call.
GenerateAuditReport(toolResults, documentInfo, wcagLevel, beforeScore, afterScore) ==
    LET allIssues == IssuesOf(toolResults)
        allFixes == FixesOf(toolResults)
    IN  [executive_summary |->
             [document_name |-> documentInfo.fileName,
              wcag_level |-> wcagLevel,
              overall_score |-> OverallScore(beforeScore, afterScore),
              total_issues |-> TotalIssues(allIssues),
              total_fixes |-> Cardinality({i \in 1..Len(allFixes) : allFixes[i].applied}),
              compliance_status |-> DetermineComplianceStatus(afterScore)],
         before_after_comparison |->
             [before_score |-> beforeScore,
              after_score |-> afterScore,
              improvement_percentage |-> ImprovementPercentage(beforeScore, afterScore)],
         tool_execution_details |-> toolResults]

DigitChars == <<"0", "1", "2", "3", "4", "5", "6", "7", "8", "9">>

\* The decimal digits of a natural number, most significant first.
RECURSIVE NumberDigits(_)
NumberDigits(n) ==
    IF n < 10 THEN <<DigitChars[n + 1]>>
    ELSE Append(NumberDigits(n \div 10), DigitChars[(n % 10) + 1])

\* JSON.stringify of an integer.
JsonNumber(n) == IF n < 0 THEN <<"-">> \o NumberDigits(0 - n) ELSE NumberDigits(n)

JsonNull == <<"n", "u", "l", "l">>

\* JSON.stringify of a number that may not be finite: NaN and the infinities
\* are written as null.
JsonNumberOrNull(x) == IF x.finite THEN JsonNumber(x.value) ELSE JsonNull

\* JSON.stringify of a string without characters to escape.
JsonString(str) == <<"\"", str, "\"">>

\* exportReport(report, 'json'): JSON.stringify(report, null, 2)
ExportReportJson(r) ==
    [executive_summary |->
         [document_name |-> JsonString(r.executive_summary.document_name),
          wcag_level |-> JsonString(r.executive_summary.wcag_level),
          overall_score |-> JsonNumber(r.executive_summary.overall_score),
          total_issues |-> JsonNumber(r.executive_summary.total_issues),
          total_fixes |-> JsonNumber(r.executive_summary.total_fixes),
          compliance_status |-> JsonString(r.executive_summary.compliance_status)],
     before_after_comparison |->
         [before_score |-> JsonNumber(r.before_after_comparison.before_score),
          after_score |-> JsonNumber(r.before_after_comparison.after_score),
          improvement_percentage |->
              JsonNumberOrNull(r.before_after_comparison.improvement_percentage)]]

\* The value of a sequence of decimal digits.
RECURSIVE DigitsValue(_)
DigitsValue(digits) ==
    IF Len(digits) = 0 THEN 0
    ELSE 10 * DigitsValue(SubSeq(digits, 1, Len(digits) - 1))
         + (CHOOSE d \in 0..9 : DigitChars[d + 1] = digits[Len(digits)])

\* JSON.parse of a number token.
ParseJsonNumber(token) ==
    IF token[1] = "-" THEN 0 - DigitsValue(Tail(token)) ELSE DigitsValue(token)

\* JSON.parse of a number token or null.
ParseJsonNumberOrNull(token) ==
    IF token = JsonNull THEN [isNull |-> TRUE]
    ELSE [isNull |-> FALSE, value |-> ParseJsonNumber(token)]

\* JSON.parse of a string token.
ParseJsonString(token) == token[2]

\* JSON.parse of the exported text.
ParseReportJson(json) ==
    [executive_summary |->
         [document_name |-> ParseJsonString(json.executive_summary.document_name),
          wcag_level |-> ParseJsonString(json.executive_summary.wcag_level),
          overall_score |-> ParseJsonNumber(json.executive_summary.overall_score),
          total_issues |-> ParseJsonNumber(json.executive_summary.total_issues),
          total_fixes |-> ParseJsonNumber(json.executive_summary.total_fixes),
          compliance_status |-> ParseJsonString(json.executive_summary.compliance_status)],
     before_after_comparison |->
         [before_score |-> ParseJsonNumber(json.before_after_comparison.before_score),
          after_score |-> ParseJsonNumber(json.before_after_comparison.after_score),
          improvement_percentage |->
              ParseJsonNumberOrNull(json.before_after_comparison.improvement_percentage)]]

\* What a caller holds after generateAuditReport, exportReport(.., 'json') and
\* JSON.parse of the exported text.
Audited(toolResults, documentInfo, wcagLevel, beforeScore, afterScore) ==
    LET built == GenerateAuditReport(toolResults, documentInfo, wcagLevel,
                                     beforeScore, afterScore)
    IN  [toolResults |-> toolResults, wcagLevel |-> wcagLevel,
         beforeScore |-> beforeScore, afterScore |-> afterScore,
         report |-> built,
         json |-> ExportReportJson(built),
         parsed |-> ParseReportJson(ExportReportJson(built))]

\* A caller builds the audit report, exports it as JSON and parses the text.
AuditAndExport(toolResults, documentInfo, wcagLevel, beforeScore, afterScore) ==
    /\ audit = Pending
    /\ audit' = Audited(toolResults, documentInfo, wcagLevel, beforeScore, afterScore)
    /\ UNCHANGED <<tools, executionLog, pc, frame, returned, repResults, report,
                   execution, extraction, calls>>

\* documentInfo, of which the summary reads the file name.
SampleDocumentInfo == [fileName |-> "report.pdf"]

\* estimateCurrentCompliance of the node: 50, plus 10 each for a language, a
\* page and more than 100 characters of text, less 15, 10 and 5 for images,
\* tables and links, kept within 0..100.
\* Mutant of EstimateCurrentCompliance: the base score is 30.
EstimateFromLowerBase(ctx, hasLanguage, hasPages) ==
    LET score == 30 + (IF hasLanguage THEN 10 ELSE 0) + (IF hasPages THEN 10 ELSE 0)
                    + (IF ctx.textLength > 100 THEN 10 ELSE 0)
                    - (IF ctx.hasImages THEN 15 ELSE 0)
                    - (IF ctx.hasTables THEN 10 ELSE 0)
                    - (IF ctx.hasLinks THEN 5 ELSE 0)
    IN  Max(0, Min(100, score))

EstimateCurrentCompliance(ctx, hasLanguage, hasPages) ==
    LET score == 50 + (IF hasLanguage THEN 10 ELSE 0) + (IF hasPages THEN 10 ELSE 0)
                    + (IF ctx.textLength > 100 THEN 10 ELSE 0)
                    - (IF ctx.hasImages THEN 15 ELSE 0)
                    - (IF ctx.hasTables THEN 10 ELSE 0)
                    - (IF ctx.hasLinks THEN 5 ELSE 0)
    IN  Max(0, Min(100, score))

\* What the caller of executeTools does with the value it awaited: the report
\* of the manager, the two scores, the audit report and its export.
ReportOnRun(hasLanguage, hasPages) ==
    /\ pc = "returned"
    /\ frame.op = "executeTools"
    /\ pc' = "reported"
    /\ repResults' = frame.ret.results
    /\ report' = GenerateAccessibilityReport(frame.ret.results)
    /\ audit' = Audited(frame.ret.results, SampleDocumentInfo, frame.context.wcagLevel,
                        EstimateCurrentCompliance(frame.context, hasLanguage, hasPages),
                        GenerateAccessibilityReport(frame.ret.results).complianceScore)
    /\ UNCHANGED <<tools, executionLog, frame, returned, execution, extraction, calls>>

\* complianceScore of the report of the manager the node imports.
Phase3ComplianceScore == 85

\* The node's auto mode on one item: the imported manager's executeTools and
\* generateAccessibilityReport, the estimate, the audit report.  hasLanguage:
\* context.language is set and not 'unknown'; hasPages: context.pageCount > 0.
AutoMode(ctx, hasLanguage, hasPages) ==
    /\ audit = Pending
    /\ audit' = [context |-> ctx, hasLanguage |-> hasLanguage, hasPages |-> hasPages,
                 beforeScore |-> EstimateCurrentCompliance(ctx, hasLanguage, hasPages),
                 afterScore |-> Phase3ComplianceScore,
                 report |-> GenerateAuditReport(
                                Phase3Return.results, SampleDocumentInfo, ctx.wcagLevel,
                                EstimateCurrentCompliance(ctx, hasLanguage, hasPages),
                                Phase3ComplianceScore)]
    /\ UNCHANGED <<tools, executionLog, pc, frame, returned, repResults, report,
                   execution, extraction, calls>>

\* Envelopes as executeTools returns them: of a tool that found nothing, of one
\* that found an issue and proposes a fix, of one that failed after finding an
\* issue, and of an unregistered name.
SampleEnvelopes ==
    {ToolResult("metadata_enhancer", outcome) :
        outcome \in {o \in ToolOutcomes : o.kind = "returns"}}
        \cup {FailureEnvelope("unknown_tool", NotFoundError("unknown_tool"))}

SampleResultLists == UNION {[1..n -> SampleEnvelopes] : n \in 0..MaxEnvelopes}

\* The scores handed to generateAuditReport.
Scores == 0..MaxAuditScore

SampleBeforeScores == {0, 50, MaxAuditScore}

(***************************************************************************)
(* Documents the analyzers are run on                                      *)
(***************************************************************************)
\* A plain document: a good file name, a language, a short text in which no
\* pattern of any analyzer matches.
BaseDocument ==
    [hasImages |-> FALSE, hasTables |-> FALSE, hasLinks |-> FALSE,
     textLength |-> 501, wcagLevel |-> "AA",
     titleKind |-> "good", hasLanguage |-> TRUE,
     imageCount |-> 0, lines |-> <<>>, tables |-> <<>>, links |-> <<>>]

\* File names of at most 5 characters, with "untitled" or "document" in them, or
\* neither; context.language empty or not.
MetadataDocuments ==
    {[BaseDocument EXCEPT !.titleKind = k, !.hasLanguage = l] :
        k \in {"short", "generic", "good"}, l \in BOOLEAN}

\* Texts in which the image patterns match n times.
ImageDocuments ==
    {[BaseDocument EXCEPT !.hasImages = TRUE, !.imageCount = n] : n \in 0..MaxImages}

\* Lines that detectHeadingLevel gives the same level wherever they stand, one
\* for each of the levels 1 to 4, and a line that is no heading.
LeveledLines ==
    {<<"1", " ", "A">>,
     <<"1", ".", " ", "B">>,
     <<"1", ".", " ", "C", ".">>,
     <<"1", ".", " ", "D", ".", ".">>,
     <<"s", "e", "e", " ", "p", ".", " ", "4", ",", " ", "a", "n", "d", " ", "s", "o", " ", "o", "n", ".">>}

HeadingTexts == UNION {[1..n -> LeveledLines] : n \in 0..MaxHeadingLines}

HeadingDocuments ==
    {[BaseDocument EXCEPT !.lines = t, !.textLength = n] :
        t \in HeadingTexts, n \in {501, 2001}}

\* What parseTableFromLines can make of a block of rows: a layout table, small,
\* of more than 5 columns or of more than 10 rows; a data table with or without
\* a header row, a data table of more than 5 columns.
TableKinds ==
    {[isDataTable |-> FALSE, hasHeaders |-> FALSE, rows |-> 2, columns |-> 2],
     [isDataTable |-> FALSE, hasHeaders |-> FALSE, rows |-> 2, columns |-> 6],
     [isDataTable |-> FALSE, hasHeaders |-> TRUE, rows |-> 11, columns |-> 2],
     [isDataTable |-> TRUE, hasHeaders |-> TRUE, rows |-> 3, columns |-> 2],
     [isDataTable |-> TRUE, hasHeaders |-> FALSE, rows |-> 2, columns |-> 2],
     [isDataTable |-> TRUE, hasHeaders |-> FALSE, rows |-> 2, columns |-> 6]}

TableDocuments ==
    {[BaseDocument EXCEPT !.hasTables = TRUE, !.tables = t] :
        t \in UNION {[1..n -> TableKinds] : n \in 0..MaxTables}}

\* A match of one of extractLinkInfo's patterns; text is the lower-cased match.
Link(text, pattern, words, length, isGenericPhrase, external, warned, contextLength) ==
    [text |-> text, pattern |-> pattern, words |-> words, length |-> length,
     isGenericPhrase |-> isGenericPhrase, containsGenericPhrase |-> isGenericPhrase,
     hasFragment |-> ~external, startsWithSlash |-> FALSE, hasLocalhost |-> FALSE,
     contextHasWarning |-> warned, contextLength |-> contextLength]

\* "click here" alone on its line; an external URL in a sentence, with and
\* without the word "external" near it; a URL with a fragment; an e-mail
\* address; a phone number written with spaces.
LinkKinds ==
    {Link("click here", "generic", 2, 10, TRUE, FALSE, FALSE, 17),
     Link("https://example.com/report", "url", 1, 26, FALSE, TRUE, FALSE, 60),
     Link("https://example.org/study", "url", 1, 25, FALSE, TRUE, TRUE, 60),
     Link("https://example.com/#top", "url", 1, 24, FALSE, FALSE, FALSE, 60),
     Link("info@example.com", "email", 1, 16, FALSE, FALSE, FALSE, 60),
     Link("555 123 4567", "phone", 3, 12, FALSE, FALSE, FALSE, 60)}

LinkDocuments ==
    {[BaseDocument EXCEPT !.hasLinks = TRUE, !.links = l] :
        l \in UNION {[1..n -> LinkKinds] : n \in 0..MaxLinks}}

\* The documents that differ in what the analyzer named name reads.
DocumentsFor(name) ==
    CASE name = "metadata_enhancer"   -> MetadataDocuments
      [] name = "heading_structure"   -> HeadingDocuments
      [] name = "image_alttext"       -> ImageDocuments
      [] name = "table_accessibility" -> TableDocuments
      [] name = "link_text"           -> LinkDocuments

\* What can happen around one execute call of the tool on the document: the
\* Math.random draws (the image analyzer's only), the step that throws, the
\* generator calls that reject.
Environments(name, doc) ==
    LET images == IF name = "image_alttext" THEN Min(doc.imageCount, ImageLimit) ELSE 0
        faults == {<<"none", 0>>, <<"analyze", 0>>}
                      \cup (IF name = "image_alttext"
                                THEN {<<"analyzeImage", k>> : k \in 1..images}
                                ELSE {<<"fixes", 0>>})
    IN  {[draws |-> d, faultStep |-> f[1], faultAt |-> f[2], failedItems |-> items] :
            d \in [1..images -> ImageDraws], f \in faults,
            items \in SUBSET (1..MaxGeneratorCalls)}

\* The environments in which no step throws and no generator call rejects: what
\* is left to vary is what Math.random returns.
QuietEnvironments(name, doc) ==
    {env \in Environments(name, doc) : env.faultStep = "none" /\ env.failedItems = {}}

\* Documents for the calls repeated on one manager: a text that mentions one
\* image, and one document for each of the other analyzers to find fault with.
RepeatDocuments ==
    {doc \in ImageDocuments : doc.imageCount = 1}
        \cup {[BaseDocument EXCEPT !.titleKind = "generic"],
              [BaseDocument EXCEPT !.lines = <<<<"1", " ", "A">>, <<"1", ".", " ", "C", ".">>>>],
              [BaseDocument EXCEPT !.hasTables = TRUE,
                                   !.tables = <<[isDataTable |-> TRUE, hasHeaders |-> FALSE,
                                                 rows |-> 2, columns |-> 2]>>],
              [BaseDocument EXCEPT !.hasLinks = TRUE,
                                   !.links = <<Link("click here", "generic", 2, 10,
                                                    TRUE, FALSE, FALSE, 17)>>]}

\* "1. Introduction\n\nThis is text.\n\n1.1 Background\n\nMore text.\n\n1.1.1 Details\n"
\* split at the line feeds: ten lines, the last one empty.
IntroductionText ==
    <<<<"1", ".", " ", "I", "n", "t", "r", "o", "d", "u", "c", "t", "i", "o", "n">>,
      <<>>,
      <<"T", "h", "i", "s", " ", "i", "s", " ", "t", "e", "x", "t", ".">>,
      <<>>,
      <<"1", ".", "1", " ", "B", "a", "c", "k", "g", "r", "o", "u", "n", "d">>,
      <<>>,
      <<"M", "o", "r", "e", " ", "t", "e", "x", "t", ".">>,
      <<>>,
      <<"1", ".", "1", ".", "1", " ", "D", "e", "t", "a", "i", "l", "s">>,
      <<>>>>

\* A caller has the heading analyzer analyze a text.
AnalyzeHeadings(lines) ==
    /\ extraction = Pending
    /\ extraction' = [lines |-> lines, analysis |-> AnalyzeHeadingStructure(lines)]
    /\ UNCHANGED <<tools, executionLog, pc, frame, returned, repResults, report,
                   execution, audit, calls>>

\* A caller runs one analyzer directly.
ExecuteAnalyzer(name, doc, llmProvider, env) ==
    /\ execution = Pending
    /\ execution' = [tool |-> name, context |-> doc, llmProvider |-> llmProvider,
                     env |-> env,
                     kind |-> Execute(name, doc, llmProvider, env).kind,
                     envelope |-> ToolResult(name, Execute(name, doc, llmProvider, env))]
    /\ UNCHANGED <<tools, executionLog, pc, frame, returned, repResults, report,
                   extraction, audit, calls>>

(***************************************************************************)
(* Specifications                                                          *)
(***************************************************************************)
Init ==
    /\ tools = <<>>
    /\ executionLog = <<>>
    /\ pc = "idle"
    /\ frame = NoFrame
    /\ returned = <<>>
    /\ repResults = <<>>
    /\ report = Pending
    /\ execution = Pending
    /\ extraction = Pending
    /\ audit = Pending
    /\ calls = <<>>

RequestLists == UNION {[1..n -> RequestNames] : n \in 0..MaxNames}

\* The documents the orchestrator is driven with: neither executeTools nor any
\* canProcess reads wcagLevel, and textContent.length only against 500.
ExecContexts ==
    {c \in Contexts : /\ c.wcagLevel = "AA"
                      /\ c.textLength \in {500, 501}}

Next ==
    \/ \E name \in ToolNames : RegisterTool(name)
    \/ \E ctx \in ExecContexts : AnalyzeAndRecommendTools(ctx)
    \/ \E toolNames \in RequestLists, ctx \in ExecContexts : ExecuteTools(toolNames, ctx)
    \/ \E outcome \in ToolOutcomes : ToolSettles(outcome)
    \/ GetExecutionStats
    \/ Return

\* One manager, driven by a caller that awaits each call before the next.
Spec == Init /\ [][Next]_vars

NextRecommend ==
    \/ \E name \in ToolNames : RegisterTool(name)
    \/ \E ctx \in Contexts : AnalyzeAndRecommendTools(ctx)
    \/ Return

\* registerTool and analyzeAndRecommendTools over every context.
SpecRecommend == Init /\ [][NextRecommend]_vars

\* The requests of at most one name.
ShortRequestLists == {toolNames \in RequestLists : Len(toolNames) <= 1}

NextAnalyzer ==
    /\ execution = Pending
    /\ \E name \in ToolNames, llmProvider \in BOOLEAN :
           \E doc \in DocumentsFor(name) :
               \E env \in Environments(name, doc) :
                   ExecuteAnalyzer(name, doc, llmProvider, env)

NextRepeat ==
    \/ \E name \in ToolNames : RegisterTool(name)
    \/ \E toolNames \in RequestLists, doc \in RepeatDocuments : ExecuteTools(toolNames, doc)
    \/ \E toolNames \in RequestLists, doc \in RepeatDocuments :
           ExecuteToolsWithProvider(toolNames, doc)
    \/ /\ pc = "awaiting"
       /\ \E env \in QuietEnvironments(frame.orderedTools[frame.idx], frame.context) :
              AnalyzerSettles(env)
    \/ ExecuteToolsAgain
    \/ /\ pc = "idle"
       /\ \E toolNames \in ShortRequestLists, doc \in RepeatDocuments,
             llmProvider \in BOOLEAN :
              Phase3ExecuteTools(toolNames, doc, llmProvider)
    \/ Return

\* One manager with the analyzers themselves registered, driven by a caller that
\* may repeat a call, and the manager the node imports; no step of an analyzer
\* fails.
SpecRepeat == Init /\ [][NextRepeat]_vars

\* Each analyzer's execute on its own, over the documents and environments.
SpecAnalyzer == Init /\ [][NextAnalyzer]_vars

\* Texts in which extractTableInfo's loop finds up to MaxDetectedTables tables,
\* each a small layout table or a data table with a header row.
DetectedTableDocuments ==
    {[BaseDocument EXCEPT !.hasTables = TRUE, !.tables = t] :
        t \in UNION {[1..n -> {[isDataTable |-> FALSE, hasHeaders |-> FALSE,
                                rows |-> 2, columns |-> 2],
                               [isDataTable |-> TRUE, hasHeaders |-> TRUE,
                                rows |-> 3, columns |-> 2]}] :
                         n \in 0..MaxDetectedTables}}

NextTables ==
    /\ execution = Pending
    /\ \E doc \in DetectedTableDocuments, llmProvider \in BOOLEAN :
           \E env \in QuietEnvironments("table_accessibility", doc) :
               ExecuteAnalyzer("table_accessibility", doc, llmProvider, env)

\* The table analyzer's execute over texts with more tables than it processes.
SpecTables == Init /\ [][NextTables]_vars

\* An empty line and a line of white space only.
BlankLines == {<<>>, <<" ", "\t">>}

\* The texts of up to MaxAnalyzedLines lines, each blank or of a known level.
AnalyzedTexts ==
    UNION {[1..n -> LeveledLines \cup BlankLines] : n \in 0..MaxAnalyzedLines}

NextHeadings ==
    /\ extraction = Pending
    /\ \E lines \in AnalyzedTexts \cup {IntroductionText} : AnalyzeHeadings(lines)

\* analyzeHeadingStructure over the texts within the bounds.
SpecHeadings == Init /\ [][NextHeadings]_vars

\* The documents the pipeline is driven with: every combination of the three
\* content flags, textContent.length around 500 and 1000, and either a text in
\* which the patterns of the flagged kinds match (one image mention, one data
\* table without a header row, one "click here" link, a level-1 heading followed
\* by a level-3 heading) or a text in which nothing matches.
PipelineDocuments ==
    {[BaseDocument EXCEPT
         !.hasImages = i, !.hasTables = t, !.hasLinks = l, !.textLength = n,
         !.imageCount = IF i /\ found THEN 1 ELSE 0,
         !.tables = IF t /\ found
                        THEN <<[isDataTable |-> TRUE, hasHeaders |-> FALSE,
                                rows |-> 2, columns |-> 2]>>
                        ELSE <<>>,
         !.links = IF l /\ found
                       THEN <<Link("click here", "generic", 2, 10, TRUE, FALSE, FALSE, 17)>>
                       ELSE <<>>,
         !.lines = IF found THEN <<<<"1", " ", "A">>, <<"1", ".", " ", "C", ".">>>>
                            ELSE <<>>] :
        i \in BOOLEAN, t \in BOOLEAN, l \in BOOLEAN, found \in BOOLEAN,
        n \in TextLengths}

\* The environments of a run on a context of the declared type: the steps that
\* read only the context complete; the provider's calls, made only when a
\* provider was passed, may reject.
PipelineEnvironments(name, doc, llmProvider) ==
    {env \in Environments(name, doc) :
        IF llmProvider THEN env.faultStep \in {"none", "fixes"}
                       ELSE env.faultStep = "none" /\ env.failedItems = {}}

\* The caller registers the five analyzers before its first call.
AnalyzersRegistered == tools = AnalyzerOrder

NextPipeline ==
    \/ RegisterNextAnalyzer
    \/ /\ AnalyzersRegistered
       /\ \E doc \in PipelineDocuments : AnalyzeAndRecommendTools(doc)
    \/ ExecuteRecommended
    \/ /\ AnalyzersRegistered
       /\ \E toolNames \in RequestLists, doc \in PipelineDocuments :
              ExecuteTools(toolNames, doc)
    \/ /\ AnalyzersRegistered
       /\ \E toolNames \in RequestLists, doc \in PipelineDocuments :
              ExecuteToolsWithProvider(toolNames, doc)
    \/ /\ pc = "awaiting"
       /\ \E env \in PipelineEnvironments(frame.orderedTools[frame.idx], frame.context,
                                          frame.llmProvider) :
              AnalyzerSettles(env)
    \/ ReportOnReturned

\* One manager on which the five analyzers get registered, one
\* analyzeAndRecommendTools or executeTools call, and the manager's report of
\* what executeTools returned.
SpecPipeline == Init /\ [][NextPipeline]_vars

\* The contexts of the node's items: textContent.length around 100, which the
\* estimate compares it with.
AutoContexts ==
    [hasImages : BOOLEAN, hasTables : BOOLEAN, hasLinks : BOOLEAN,
     textLength : {0, 100, 101, 1001}, wcagLevel : WcagLevels]

NextAuto ==
    /\ audit = Pending
    /\ \E ctx \in AutoContexts, hasLanguage \in BOOLEAN, hasPages \in BOOLEAN :
           AutoMode(ctx, hasLanguage, hasPages)

\* The node's auto mode over the contexts.
SpecAuto == Init /\ [][NextAuto]_vars

\* The names requested of overlapping invocations.
OverlapNames == {"metadata_enhancer", "link_text", "unknown_tool"}

OverlapRequests ==
    {toolNames \in RequestLists : \A i \in 1..Len(toolNames) : toolNames[i] \in OverlapNames}

NextOverlap ==
    \/ \E name \in OverlapNames \cap ToolNames : RegisterTool(name)
    \/ \E toolNames \in OverlapRequests :
           StartExecuteTools(toolNames, [BaseDocument EXCEPT !.hasLinks = TRUE])
    \/ \E c \in 1..Len(calls), outcome \in ToolOutcomes : ExecuteToolsResumes(c, outcome)

\* One manager and callers that start executeTools without awaiting the
\* invocation in flight.
SpecOverlap == Init /\ [][NextOverlap]_vars

NextRun ==
    \/ \E name \in ToolNames : RegisterTool(name)
    \/ \E toolNames \in RequestLists, ctx \in ExecContexts : ExecuteTools(toolNames, ctx)
    \/ \E outcome \in ToolOutcomes : ToolSettles(outcome)
    \/ \E hasLanguage \in BOOLEAN, hasPages \in BOOLEAN : ReportOnRun(hasLanguage, hasPages)

\* One run of the pipeline: tools registered, one executeTools call, the
\* manager's report and the audit report of what it returned.
SpecRun == Init /\ [][NextRun]_vars

NextAudit ==
    /\ audit = Pending
    /\ \E toolResults \in SampleResultLists, wcagLevel \in WcagLevels,
          beforeScore \in SampleBeforeScores, afterScore \in Scores :
           AuditAndExport(toolResults, SampleDocumentInfo, wcagLevel, beforeScore, afterScore)

\* generateAuditReport, exportReport and JSON.parse over the scores.
SpecAudit == Init /\ [][NextAudit]_vars

NextScore ==
    \/ GenerateReport
    \/ ReportWithEnvelope
    \/ \E e \in 1..Len(repResults), sev \in Severities : ReportWithIssue(e, sev)
    \/ \E e \in 1..Len(repResults), isApplied \in BOOLEAN : ReportWithFix(e, isApplied)
    \/ \E e \in 1..Len(repResults) :
           \E j \in 1..Len(repResults[e].fixesApplied) : ReportAfterApplying(e, j)
    \/ \E e \in 1..(Len(repResults) - 1) : ReportOnSwapped(e)
    \/ \E e \in 1..Len(repResults), to \in 1..Len(repResults) :
           \E j \in 1..Len(repResults[e].issuesFound) : ReportOnMovedIssue(e, j, to)
    \/ \E e \in 1..Len(repResults), to \in 1..Len(repResults) :
           \E j \in 1..Len(repResults[e].fixesApplied) : ReportOnMovedFix(e, j, to)

\* generateAccessibilityReport over the envelope lists within the bounds.
SpecScore == Init /\ [][NextScore]_vars

(***************************************************************************)
(* Properties                                                              *)
(***************************************************************************)
InExecuteTools == frame.op = "executeTools"

ExecuteToolsReturned == pc = "returned" /\ InExecuteTools

Occurrences(seq, x) == Cardinality({i \in 1..Len(seq) : seq[i] = x})

EnvelopeNames(results) == [i \in 1..Len(results) |-> results[i].toolName]

IsPrefix(s, t) == Len(s) <= Len(t) /\ SubSeq(t, 1, Len(s)) = s

\* C1: executeTools isolates failures.  Whatever the requested names and whatever
\* each run does (resolves with success, resolves with success = false, rejects),
\* the call returns one envelope per requested name, so every name after a failing
\* one is still processed, and a run that rejected is recorded as an envelope with
\* success = false, no issues, no fixes and the error's message.
C1_FailureIsolation ==
    InExecuteTools =>
        /\ pc = "awaiting" => frame.idx \in 1..Len(frame.orderedTools)
        /\ pc = "returned" =>
            /\ Len(frame.ret.results) = Len(frame.requested)
            /\ \A n \in RequestNames :
                   Occurrences(EnvelopeNames(frame.ret.results), n)
                       = Occurrences(frame.requested, n)
            /\ Len(frame.settled) = Len(frame.executed)
            /\ \A k \in 1..Len(frame.settled) :
                   frame.settled[k].kind = "throws" =>
                       \E i \in 1..Len(frame.ret.results) :
                           frame.ret.results[i] =
                               [toolName |-> frame.executed[k], success |-> FALSE,
                                issuesFound |-> <<>>, fixesApplied |-> <<>>,
                                error |-> frame.settled[k].error]

\* A call in which the first run rejected and the name after it was still run.
C1_Witness ==
    /\ ExecuteToolsReturned
    /\ Len(frame.settled) = 2
    /\ frame.settled[1].kind = "throws"
    /\ frame.ret.results[1].error = <<"boom">>
    /\ frame.ret.results[2].success

\* C2: executeTools with one unregistered name and one registered, eligible name
\* whose run succeeds returns exactly 2 envelopes: a failure envelope saying the
\* unregistered tool was not found, and a successful envelope of the valid tool,
\* in whichever order the tools were registered and the two names were requested.
C2_UnregisteredAndValid ==
    (ExecuteToolsReturned /\ Len(frame.requested) = 2) =>
        \A u, v \in RequestNames :
            ( /\ {frame.requested[1], frame.requested[2]} = {u, v}
              /\ ~ToolsHas(tools, u)
              /\ ToolsHas(tools, v)
              /\ CanProcess(v, frame.context)
              /\ Len(frame.settled) = 1
              /\ frame.settled[1].kind = "returns"
              /\ frame.settled[1].success )
            => /\ Len(frame.ret.results) = 2
               /\ \E i \in 1..2 :
                      /\ frame.ret.results[i] =
                             [toolName |-> u, success |-> FALSE, issuesFound |-> <<>>,
                              fixesApplied |-> <<>>, error |-> NotFoundError(u)]
                      /\ frame.ret.results[3 - i].toolName = v
                      /\ frame.ret.results[3 - i].success

\* The unregistered name requested first, the valid tool registered second.
C2_Witness ==
    /\ ExecuteToolsReturned
    /\ tools = <<"metadata_enhancer", "link_text">>
    /\ frame.requested = <<"unknown_tool", "link_text">>
    /\ Len(frame.ret.results) = 2
    /\ frame.ret.results[1].toolName = "link_text"
    /\ frame.ret.results[1].success
    /\ frame.ret.results[2].error = NotFoundError("unknown_tool")

\* C3: an analyzer that is not eligible for the context is never run.  execute is
\* invoked only on a registered tool whose canProcess(context) is true; a
\* registered tool that is not eligible yields a failure envelope (success = false,
\* no issues, no fixes, the "cannot process" error), and the loop goes on: when
\* the call returns every requested name has its envelope.
C3_IneligibleNeverRun ==
    InExecuteTools =>
        /\ \A k \in 1..Len(frame.executed) :
               /\ ToolsHas(tools, frame.executed[k])
               /\ CanProcess(frame.executed[k], frame.context)
        /\ \A i \in 1..Len(frame.results) :
               LET name == frame.orderedTools[i]
               IN  (ToolsHas(tools, name) /\ ~CanProcess(name, frame.context)) =>
                       frame.results[i] =
                           [toolName |-> name, success |-> FALSE, issuesFound |-> <<>>,
                            fixesApplied |-> <<>>, error |-> CannotProcessError(name)]
        /\ pc = "returned" => Len(frame.results) = Len(frame.orderedTools)

\* An ineligible registered tool passed over, and the name after it run.
C3_Witness ==
    /\ ExecuteToolsReturned
    /\ Len(frame.results) = 2
    /\ ToolsHas(tools, frame.orderedTools[1])
    /\ ~CanProcess(frame.orderedTools[1], frame.context)
    /\ frame.results[1].error = CannotProcessError(frame.orderedTools[1])
    /\ frame.executed = <<frame.orderedTools[2]>>

\* C4: the summary's success flag is the AND of the success flags of all the
\* envelopes returned by the same call, those of unregistered and of ineligible
\* tools included.
C4_SummarySuccessIsAnd ==
    ExecuteToolsReturned =>
        (frame.ret.summary.success
            <=> \A i \in 1..Len(frame.ret.results) : frame.ret.results[i].success)

\* The rank the names are claimed to run in; names outside the table are last.
ClaimedRank(name) ==
    CASE name = "metadata_enhancer"   -> 1
      [] name = "heading_structure"   -> 2
      [] name = "image_alttext"       -> 3
      [] name = "table_accessibility" -> 4
      [] name = "link_text"           -> 5
      [] OTHER                        -> 6

OfRank(seq, r) == LET HasRank(n) == ClaimedRank(n) = r IN SelectSeq(seq, HasRank)

C6_LogIsWhatWasReturned ==
    /\ executionLog = returned
    /\ ExecutionStats(executionLog).totalExecutions = Len(returned)
    /\ frame.op = "getExecutionStats" => frame.ret.totalExecutions = Len(returned)

\* C6: the execution log is append-only.  After any sequence of registerTool,
\* analyzeAndRecommendTools, executeTools and getExecutionStats calls the log is
\* the concatenation, in call order, of the envelope lists executeTools returned;
\* no step removes, reorders or changes an entry; and totalExecutions of
\* getExecutionStats is the number of envelopes returned so far.
C6_LogAppendOnly ==
    /\ []C6_LogIsWhatWasReturned
    /\ [][IsPrefix(executionLog, executionLog')]_vars

\* A second executeTools call has added its envelope behind the first call's.
C6_Witness ==
    /\ ExecuteToolsReturned
    /\ Len(frame.ret.results) = 1
    /\ Len(executionLog) = 2
    /\ executionLog[1] # executionLog[2]
    /\ executionLog[2] = frame.ret.results[1]

InList(seq, x) == \E i \in 1..Len(seq) : seq[i] = x

\* C7: analyzeAndRecommendTools selects a registered analyzer if and only if the
\* analyzer's own canProcess(context) is true, for every context.
C7_SelectedIffEligible ==
    (pc = "returned" /\ frame.op = "analyzeAndRecommendTools") =>
        \A i \in 1..Len(tools) :
            InList(frame.ret.recommendedTools, tools[i])
                <=> CanProcess(tools[i], frame.context)

ReportMade == report # Pending

\* C8: the compliance score of generateAccessibilityReport is between 0 and 100
\* for every envelope list, whatever the issue counts per severity and whatever
\* the number of applied fixes.
C8_ScoreInRange == ReportMade => report.complianceScore \in 0..100

\* The positions <<envelope, index>> of the issues and of the fixes of a list.
IssueSlots(results) ==
    UNION {{e} \X (1..Len(results[e].issuesFound)) : e \in 1..Len(results)}

FixSlots(results) ==
    UNION {{e} \X (1..Len(results[e].fixesApplied)) : e \in 1..Len(results)}

IssuesWith(results, sev) ==
    Cardinality({p \in IssueSlots(results) :
                    results[p[1]].issuesFound[p[2]].severity = sev})

FixesWith(results, isApplied) ==
    Cardinality({p \in FixSlots(results) :
                    results[p[1]].fixesApplied[p[2]].applied = isApplied})

SameIssueCounts(a, b) ==
    \A sev \in Severities : IssuesWith(a, sev) = IssuesWith(b, sev)

C9_EmptyListScores100 ==
    (ReportMade /\ repResults = <<>>) => report.complianceScore = 100

C9_MoreAppliedNeverLowers ==
    ( /\ ReportMade
      /\ SameIssueCounts(repResults, repResults')
      /\ FixesWith(repResults, TRUE) <= FixesWith(repResults', TRUE) )
    => report.complianceScore <= report'.complianceScore

\* C9: the score of the empty envelope list is 100, and between two reports with
\* the same issue counts per severity the one with at least as many applied fixes
\* has at least as high a score.
C9_ScoreMonotone ==
    /\ []C9_EmptyListScores100
    /\ [][C9_MoreAppliedNeverLowers]_vars

\* A report on one critical issue with one fix applied: half of the weight recovered.
C9_Witness ==
    /\ ReportMade
    /\ IssuesWith(repResults, "critical") = 1
    /\ Cardinality(IssueSlots(repResults)) = 1
    /\ FixesWith(repResults, TRUE) = 1
    /\ report.complianceScore = 50

SameFindings(a, b) ==
    /\ SameIssueCounts(a, b)
    /\ \A isApplied \in BOOLEAN : FixesWith(a, isApplied) = FixesWith(b, isApplied)

\* C10: the compliance score does not depend on the order of the envelopes nor on
\* how the issues and fixes are grouped into envelopes: two reports on lists that
\* hold the same issues and the same fixes give the same score.
C10_ScoreOrderIndependent ==
    [][(ReportMade /\ SameFindings(repResults, repResults'))
           => report'.complianceScore = report.complianceScore]_vars

\* A report on two different envelopes, the findings in the second one.
C10_Witness ==
    /\ ReportMade
    /\ Len(repResults) = 2
    /\ repResults[1].issuesFound = <<>>
    /\ repResults[1].fixesApplied = <<>>
    /\ repResults[2].issuesFound = <<Issue("critical")>>
    /\ repResults[2].fixesApplied = <<Fix(TRUE)>>
    /\ report.complianceScore = 50

(***************************************************************************)
(* C11                                                                     *)
(***************************************************************************)
\* What an envelope list says apart from elapsed times: for each envelope the
\* tool, the outcome and the issues and fixes with all their content.
Findings(results) ==
    [i \in 1..Len(results) |->
        [toolName |-> results[i].toolName, success |-> results[i].success,
         issuesFound |-> results[i].issuesFound,
         fixesApplied |-> results[i].fixesApplied]]

RepeatedCallReturned ==
    /\ pc = "returned"
    /\ frame.op = "executeTools"
    /\ frame.repeats

\* C11: when executeTools is called twice with the same names, context and
\* provider on a manager whose registered analyzers have not changed, the
\* second call's envelopes carry the same issues and fixes as the first's.
C11_RepeatedCallSameFindings ==
    RepeatedCallReturned => Findings(frame.ret.results) = Findings(frame.first)

(***************************************************************************)
(* C12                                                                     *)
(***************************************************************************)
AnalyzerReturned == execution # Pending /\ execution.kind = "returns"

Range(seq) == {seq[i] : i \in 1..Len(seq)}

\* C12: every rule identifier in the wcagCriteria of every issue an analyzer
\* raises is one of the identifiers its getSupportedWCAGCriteria declares.
C12_CriteriaWithinSupported ==
    AnalyzerReturned =>
        \A i \in 1..Len(execution.envelope.issuesFound) :
            Range(execution.envelope.issuesFound[i].wcagCriteria)
                \subseteq SupportedWCAGCriteria(execution.tool)

(***************************************************************************)
(* C13                                                                     *)
(***************************************************************************)
\* What the same call returns when no internal step throws.
WithoutFault(x) ==
    Execute(x.tool, x.context, x.llmProvider, [x.env EXCEPT !.faultStep = "none"])

\* What the image analyzer returns for the images before the k-th alone.
BeforeImage(x, k) ==
    Execute(x.tool, [x.context EXCEPT !.imageCount = k - 1], x.llmProvider,
            [x.env EXCEPT !.faultStep = "none"])

\* The throwing step of the call is one the call gets to: the analysis always,
\* the k-th image when there is one, the fix generation when a provider is
\* given and an issue was found.
FaultReached(x) ==
    \/ x.env.faultStep = "analyze"
    \/ x.env.faultStep = "analyzeImage" /\ x.env.faultAt <= x.context.imageCount
    \/ x.env.faultStep = "fixes" /\ x.llmProvider /\ Len(WithoutFault(x).issuesFound) > 0

\* The issues and the fixes the call has gathered when the step throws.
GatheredBeforeFault(x) ==
    CASE x.env.faultStep = "analyze" -> [issues |-> <<>>, fixes |-> <<>>]
      [] x.env.faultStep = "analyzeImage" ->
             [issues |-> BeforeImage(x, x.env.faultAt).issuesFound,
              fixes |-> BeforeImage(x, x.env.faultAt).fixesApplied]
      [] x.env.faultStep = "fixes" ->
             [issues |-> WithoutFault(x).issuesFound, fixes |-> <<>>]

\* C13: an analyzer's execute never propagates an error: it returns, and when
\* an internal step has thrown, the envelope has success = false, the error's
\* message, and the issues and fixes gathered before the step that threw.
C13_FailureEnvelopeKeepsGathered ==
    execution # Pending =>
        /\ execution.kind = "returns"
        /\ FaultReached(execution) =>
               /\ execution.envelope.success = FALSE
               /\ execution.envelope.error = <<execution.env.faultStep, "failed">>
               /\ execution.envelope.issuesFound = GatheredBeforeFault(execution).issues
               /\ execution.envelope.fixesApplied = GatheredBeforeFault(execution).fixes

\* The second image's analysis throws after the first image has given an issue
\* and a fix; the heading analyzer's fix generation throws after its issues.
C13_Witness ==
    /\ execution # Pending
    /\ FaultReached(execution)
    /\ \/ /\ execution.env.faultStep = "analyzeImage"
          /\ execution.env.faultAt = 2
          /\ Len(execution.envelope.issuesFound) > 0
          /\ Len(execution.envelope.fixesApplied) > 0
       \/ /\ execution.env.faultStep = "fixes"
          /\ execution.tool = "heading_structure"
          /\ Len(execution.envelope.issuesFound) > 0

(***************************************************************************)
(* C14                                                                     *)
(***************************************************************************)
\* What the same call returns when the generator calls in failed reject.
WithFailedItems(x, failed) ==
    Execute(x.tool, x.context, x.llmProvider, [x.env EXCEPT !.failedItems = failed])

\* The fixes that are missing when the n-th generator call alone rejects.
LostWith(x, n) ==
    Range(WithFailedItems(x, {}).fixesApplied) \ Range(WithFailedItems(x, {n}).fixesApplied)

KeptFixes(x) ==
    LET Kept(fix) == \A n \in x.env.failedItems : fix \notin LostWith(x, n)
    IN  SelectSeq(WithFailedItems(x, {}).fixesApplied, Kept)

GeneratorFailureOnly(x) ==
    x.llmProvider /\ x.env.faultStep = "none" /\ x.env.failedItems # {}

\* C14: with a fix generator of which some calls reject and no other failure,
\* the envelope has success = true and the issues of the run in which no call
\* rejects; each rejected call costs at most one fix, and the fixes returned are
\* those of that run less the ones the rejected calls would have given.
C14_GeneratorFailureDegrades ==
    (execution # Pending /\ GeneratorFailureOnly(execution)) =>
        /\ execution.kind = "returns"
        /\ execution.envelope.success = TRUE
        /\ execution.envelope.issuesFound = WithFailedItems(execution, {}).issuesFound
        /\ execution.envelope.fixesApplied = KeptFixes(execution)
        /\ \A n \in execution.env.failedItems : Cardinality(LostWith(execution, n)) <= 1

\* One generator call rejects and costs its fix while another fix is kept.
C14_Witness ==
    /\ execution # Pending
    /\ GeneratorFailureOnly(execution)
    /\ Len(execution.envelope.fixesApplied) > 0
    /\ Len(execution.envelope.fixesApplied) < Len(WithFailedItems(execution, {}).fixesApplied)

(***************************************************************************)
(* C15                                                                     *)
(***************************************************************************)
AnyExecuteToolsReturned ==
    pc = "returned" /\ frame.op \in {"executeTools", "phase3.executeTools"}

\* C15: every fix in every envelope an executeTools call returns has
\* applied = false, whatever the names, the context and the provider.
C15_NoFixApplied ==
    AnyExecuteToolsReturned =>
        \A e \in 1..Len(frame.ret.results) :
            \A j \in 1..Len(frame.ret.results[e].fixesApplied) :
                frame.ret.results[e].fixesApplied[j].applied = FALSE

(***************************************************************************)
(* C16                                                                     *)
(***************************************************************************)
HeadingsAnalyzed == extraction # Pending

\* The levels of the headings found, in document order.
FoundLevels == [i \in 1..Len(extraction.analysis.headings) |->
                   extraction.analysis.headings[i].level]

\* The deepest level among the first n of the levels, 0 when n = 0.
DeepestAmong(levels, n) ==
    IF n = 0 THEN 0
    ELSE CHOOSE m \in {levels[i] : i \in 1..n} : \A i \in 1..n : levels[i] <= m

\* No heading is more than one level below the deepest heading before it, and
\* no skipped level is reported.
NoJumpReported ==
    /\ \A i \in 1..Len(FoundLevels) :
           FoundLevels[i] <= DeepestAmong(FoundLevels, i - 1) + 1
    /\ extraction.analysis.skippedLevels = <<>>

\* The i-th heading has level 1 and the next one level 3.
GoesFrom1To3(i) ==
    i + 1 <= Len(FoundLevels) /\ FoundLevels[i] = 1 /\ FoundLevels[i + 1] = 3

SkipOf2Reported ==
    /\ extraction.analysis.hasLogicalStructure = FALSE
    /\ 2 \in Range(extraction.analysis.skippedLevels)

Level2ComesFirst ==
    \E i \in 1..Len(FoundLevels) :
        FoundLevels[i] = 2 /\ \A j \in 1..(i - 1) : FoundLevels[j] <= 1

C17_IntroductionTextHas3Headings ==
    (HeadingsAnalyzed /\ extraction.lines = IntroductionText) =>
        /\ FoundLevels = <<1, 2, 3>>
        /\ extraction.analysis.hasLogicalStructure = TRUE
        /\ extraction.analysis.skippedLevels = <<>>

(***************************************************************************)
(* C18                                                                     *)
(***************************************************************************)
AuditBuilt == audit # Pending

\* C18: compliance_status depends on the afterScore alone: "compliant" from 90
\* up, "partial" from 70 to 89, "non_compliant" below 70, for the scores 0..100.
C18_ComplianceStatusThresholds ==
    (AuditBuilt /\ audit.afterScore \in 0..100) =>
        /\ audit.afterScore >= 90
               => audit.report.executive_summary.compliance_status = "compliant"
        /\ (audit.afterScore >= 70 /\ audit.afterScore < 90)
               => audit.report.executive_summary.compliance_status = "partial"
        /\ audit.afterScore < 70
               => audit.report.executive_summary.compliance_status = "non_compliant"

\* A report built for the score 90 exactly, after a lower score before.
C18_Witness ==
    /\ AuditBuilt
    /\ audit.afterScore = 90
    /\ audit.beforeScore = 50
    /\ audit.report.executive_summary.compliance_status = "compliant"

(***************************************************************************)
(* C19                                                                     *)
(***************************************************************************)
\* C19: the JSON export of an audit report, parsed back, has
\* executive_summary.overall_score equal to the afterScore the report was built
\* with, whatever the envelopes and the scores.
C19_JsonRoundTripKeepsScore ==
    AuditBuilt => audit.parsed.executive_summary.overall_score = audit.afterScore

\* The score 100 written as "100" and read back, the score before being 0.
C19_Witness ==
    /\ AuditBuilt
    /\ audit.afterScore = 100
    /\ audit.beforeScore = 0
    /\ audit.json.executive_summary.overall_score = <<"1", "0", "0">>
    /\ audit.parsed.executive_summary.overall_score = 100
    /\ Len(audit.toolResults) > 0

(***************************************************************************)
(* C20                                                                     *)
(***************************************************************************)
\* The run is over and none of its envelopes has success = true.
RunWithoutSuccess ==
    /\ pc = "reported"
    /\ \A e \in 1..Len(frame.ret.results) : frame.ret.results[e].success = FALSE

\* Every step has returned: one envelope per requested name, the score of the
\* manager's report handed on as overall_score, the audit report exported.
RunCompleted ==
    /\ Len(frame.ret.results) = Len(frame.requested)
    /\ report # Pending
    /\ audit # Pending
    /\ audit.report.executive_summary.overall_score = report.complianceScore
    /\ audit.parsed.executive_summary.overall_score = report.complianceScore

\* C20 as stated: a run in which no requested analyzer succeeds still
\* completes, and its audit report states zero findings.
C20_NoSuccessStillReportsZeroFindings ==
    RunWithoutSuccess =>
        /\ RunCompleted
        /\ audit.report.executive_summary.total_issues = 0

\* C20 amended: such a run still completes, and its audit report states as
\* findings the issues its failure envelopes carry: none when every envelope
\* is of an unregistered name, an ineligible analyzer or an analyzer that threw.
C20_NoSuccessStillReportsEnvelopeFindings ==
    RunWithoutSuccess =>
        /\ RunCompleted
        /\ audit.report.executive_summary.total_issues
               = Cardinality(IssueSlots(frame.ret.results))
        /\ (\A k \in 1..Len(frame.settled) : frame.settled[k].kind = "throws")
               => audit.report.executive_summary.total_issues = 0

\* Two names requested, one unregistered and one whose analyzer returned
\* success = false with an issue it had found.
C20_Witness ==
    /\ RunWithoutSuccess
    /\ Len(frame.ret.results) = 2
    /\ \E e \in 1..2 : frame.ret.results[e].error = NotFoundError(frame.ret.results[e].toolName)
    /\ audit.report.executive_summary.total_issues = 1

(***************************************************************************)
(* C21                                                                     *)
(***************************************************************************)
\* No heading found is more than one level below the deepest heading before it.
NoHeadingBeyondDeepest ==
    \A i \in 1..Len(FoundLevels) :
        FoundLevels[i] <= DeepestAmong(FoundLevels, i - 1) + 1

\* C21: hasLogicalStructure is true if and only if no detected heading has a
\* level greater than 1 plus the maximum level of all headings before it (0
\* before the first heading), and the flag is true exactly when skippedLevels
\* is empty.
C21_LogicalIffNoneBeyondDeepest ==
    HeadingsAnalyzed =>
        /\ extraction.analysis.hasLogicalStructure <=> NoHeadingBeyondDeepest
        /\ extraction.analysis.hasLogicalStructure
               <=> (extraction.analysis.skippedLevels = <<>>)

(***************************************************************************)
(* C22                                                                     *)
(***************************************************************************)
TableAnalyzerReturned == AnalyzerReturned /\ execution.tool = "table_accessibility"

\* The table of the document that the k-th issue of the envelope is about.
TableOfIssue(k) == execution.context.tables[execution.envelope.issuesFound[k].detail[2]]

\* C22: the table analyzer raises no issue (missing headers, missing caption,
\* complex table) for a table whose isDataTable is false, whatever its number
\* of rows and columns.
C22_LayoutTablesIgnored ==
    TableAnalyzerReturned =>
        \A k \in 1..Len(execution.envelope.issuesFound) : TableOfIssue(k).isDataTable

(***************************************************************************)
(* C23                                                                     *)
(***************************************************************************)
\* The positions in the envelope of the missing-caption issues.
CaptionIssues ==
    {k \in 1..Len(execution.envelope.issuesFound) :
        execution.envelope.issuesFound[k].detail[1] = "lacks caption"}

\* The positions in the text of the data tables among the first 10 found.
ProcessedDataTables ==
    {i \in 1..Len(execution.context.tables) :
        i <= 10 /\ execution.context.tables[i].isDataTable}

\* C23: the table analyzer processes at most the first 10 detected tables and
\* raises exactly one missing-caption issue, of severity medium, for each
\* processed data table: no issue is about a table after the tenth, and the
\* missing-caption issues are as many as the data tables among the first 10.
C23_OneCaptionIssuePerDataTable ==
    TableAnalyzerReturned =>
        /\ \A k \in 1..Len(execution.envelope.issuesFound) :
               execution.envelope.issuesFound[k].detail[2] <= 10
        /\ \A i \in ProcessedDataTables :
               Cardinality({k \in CaptionIssues :
                               execution.envelope.issuesFound[k].detail[2] = i}) = 1
        /\ \A k \in CaptionIssues :
               /\ execution.envelope.issuesFound[k].severity = "medium"
               /\ execution.envelope.issuesFound[k].detail[2] \in ProcessedDataTables
        /\ Cardinality(CaptionIssues) = Cardinality(ProcessedDataTables)

\* A text with eleven tables, the eleventh a data table, and data tables among
\* the first ten: as many missing-caption issues as those.
C23_Witness ==
    /\ TableAnalyzerReturned
    /\ Len(execution.context.tables) = 11
    /\ execution.context.tables[11].isDataTable
    /\ Cardinality(ProcessedDataTables) >= 2
    /\ Cardinality(CaptionIssues) = Cardinality(ProcessedDataTables)

(***************************************************************************)
(* C24                                                                     *)
(***************************************************************************)
\* C24: executeTools does not modify the list of requested names it is given:
\* after the call the caller's list has the same elements in the same order as
\* before the call.
C24_RequestedListUnchanged ==
    ExecuteToolsReturned => frame.toolNames = frame.requested

(***************************************************************************)
(* C25                                                                     *)
(***************************************************************************)
\* The manager has reported on what an executeTools call returned.
PipelineReported == pc = "reported" /\ frame.op = "executeTools"

\* What the issues of an envelope are about.
IssueSubjects(envelope) ==
    {envelope.issuesFound[k].detail[1] : k \in 1..Len(envelope.issuesFound)}

SomeIssueReported == \E e \in 1..Len(repResults) : Len(repResults[e].issuesFound) > 0

StructureIssuesAt(length) ==
    IdentifyStructureIssues(extraction.analysis, [textLength |-> length])

\* C27: the heading analyzer never raises the empty-headings issue: for every
\* input text every detected heading has non-empty trimmed text, so the
\* emptyHeadings list is always empty.
C27_NoEmptyHeading ==
    HeadingsAnalyzed =>
        /\ \A i \in 1..Len(extraction.analysis.headings) :
               Len(Trim(extraction.analysis.headings[i].text)) > 0
        /\ extraction.analysis.emptyHeadings = 0
        /\ \A length \in {501, 2001} :
               \A k \in 1..Len(StructureIssuesAt(length)) :
                   StructureIssuesAt(length)[k].detail[1] # "empty headings"

\* A text with an empty line followed by a line of white space, and a heading
\* found in it.
C27_Witness ==
    /\ HeadingsAnalyzed
    /\ \E i \in 1..(Len(extraction.lines) - 1) :
           extraction.lines[i] = <<>> /\ extraction.lines[i + 1] = <<" ", "\t">>
    /\ Len(extraction.analysis.headings) > 0
    /\ extraction.analysis.emptyHeadings = 0

(***************************************************************************)
(* C28                                                                     *)
(***************************************************************************)
AutoModeDone == audit # Pending

\* C28: the before-score the node passes to generateAuditReport is between 20
\* and 80 inclusive for every context, hence never 0, and the improvement
\* percentage round(100*(after-before)/before) of the auto mode is computed
\* with a non-zero divisor: it is a finite number.
C28_BeforeScoreWithin20And80 ==
    AutoModeDone =>
        /\ audit.beforeScore \in 20..80
        /\ audit.report.before_after_comparison.before_score = audit.beforeScore
        /\ audit.report.before_after_comparison.improvement_percentage.finite

\* An item with images, tables and links, no language, no page and a short
\* text: the estimate is 20 and the improvement 325 percent.
C28_Witness ==
    /\ AutoModeDone
    /\ audit.context.hasImages /\ audit.context.hasTables /\ audit.context.hasLinks
    /\ ~audit.hasLanguage /\ ~audit.hasPages /\ audit.context.textLength = 100
    /\ audit.beforeScore = 20
    /\ audit.report.before_after_comparison.improvement_percentage
           = [finite |-> TRUE, value |-> 325]

(***************************************************************************)
(* C29                                                                     *)
(***************************************************************************)
\* Invocation c has returned.
CallReturned(c) == c \in 1..Len(calls) /\ calls[c].ret # Pending

\* The envelope that the loop pushes for the k-th run of the invocation.
EnvelopeOfRun(f, k) ==
    IF f.settled[k].kind = "returns"
        THEN ToolResult(f.executed[k], f.settled[k])
        ELSE FailureEnvelope(f.executed[k], f.settled[k].error)

\* The envelopes of the invocation that come from runs, in the order returned.
RunEnvelopes(f) ==
    LET FromRun(r) == r.error # NotFoundError(r.toolName)
    IN  SelectSeq(f.ret.results, FromRun)

\* The invocation returned the envelopes of its own requested names, those of
\* its own runs as the runs settled, and a summary computed from them alone.
ReturnedItsOwn(f) ==
    /\ EnvelopeNames(f.ret.results) = OptimizeToolOrder(f.requested)
    /\ RunEnvelopes(f) = [k \in 1..Len(f.settled) |-> EnvelopeOfRun(f, k)]
    /\ f.ret.summary.totalIssues = Cardinality(IssueSlots(f.ret.results))
    /\ f.ret.summary.totalFixes = Cardinality(FixSlots(f.ret.results))
    /\ f.ret.summary.success = \A e \in 1..Len(f.ret.results) : f.ret.results[e].success

\* The envelope lists of the first n invocations of the order, concatenated.
RECURSIVE BlocksOf(_, _)
BlocksOf(order, n) ==
    IF n = 0 THEN <<>> ELSE BlocksOf(order, n - 1) \o calls[order[n]].ret.results

\* The invocations that have returned, in every order.
OrdersOfReturned ==
    LET done == {c \in 1..Len(calls) : CallReturned(c)}
    IN  {order \in [1..Cardinality(done) -> done] :
            \A i, j \in 1..Cardinality(done) : order[i] = order[j] => i = j}

\* C29: when executeTools invocations on the same manager interleave at their
\* await points, each returns only the envelopes of its own requested names
\* with a summary computed from them alone, and the execution log holds every
\* envelope of the invocations that have finished exactly once, each
\* invocation's envelopes as one contiguous block in its returned order: once
\* two have finished, the log is the one's list followed by the other's.
C29_OverlappingCallsKeepApart ==
    /\ \A c \in 1..Len(calls) : CallReturned(c) => ReturnedItsOwn(calls[c])
    /\ \E order \in OrdersOfReturned : executionLog = BlocksOf(order, Len(order))

\* The second invocation was started while the first was suspended, resumed
\* in turns with it and finished first; both ran two tools, with different
\* outcomes.
C29_Witness ==
    /\ CallReturned(1) /\ CallReturned(2)
    /\ Len(calls[1].settled) = 2 /\ Len(calls[2].settled) = 2
    /\ calls[1].settled[1] # calls[2].settled[1]
    /\ calls[1].ret.results # calls[2].ret.results
    /\ executionLog = calls[2].ret.results \o calls[1].ret.results

(***************************************************************************)
(* C30                                                                     *)
(***************************************************************************)
\* An executeTools call has returned whose requested names are the
\* recommendation analyzeAndRecommendTools makes for its context.
RecommendedRunReturned ==
    /\ pc \in {"returned", "reported"}
    /\ frame.op = "executeTools"
    /\ frame.requested = Recommendation(tools, frame.context).recommendedTools

\* C30: with the five analyzers registered, every name returned by
\* analyzeAndRecommendTools for a context is accepted by executeTools for the
\* same context: executing the recommended list yields one envelope per name,
\* no "not found" envelope and no "cannot process" envelope.
C30_RecommendedNamesAccepted ==
    (RecommendedRunReturned /\ AnalyzersRegistered) =>
        /\ Len(frame.ret.results) = Len(frame.requested)
        /\ \A e \in 1..Len(frame.ret.results) :
               /\ frame.ret.results[e].error
                      # NotFoundError(frame.ret.results[e].toolName)
               /\ frame.ret.results[e].error
                      # CannotProcessError(frame.ret.results[e].toolName)
        /\ Len(frame.executed) = Len(frame.requested)

\* A text of 1001 characters with images, tables and links: all five analyzers
\* are recommended and all five have run.
C30_Witness ==
    /\ RecommendedRunReturned
    /\ AnalyzersRegistered
    /\ frame.context.textLength = 1001
    /\ Len(frame.requested) = 5
    /\ Len(frame.executed) = 5
    /\ \A e \in 1..5 : frame.ret.results[e].success

====
